---- MODULE Spec2Model ----
(***************************************************************************)
(* A model of the generative-systems lab: the grid automata (ConwayLife,   *)
(* BrianBrain), the L-systems (LSystemBase.generateSystem and the two      *)
(* interpreters), the slime-mold agents (Agent, SlimeMold) with the        *)
(* renderer's trail buffer, and the driver (factory, animation loop,       *)
(* controls).  One entity is alive at a time; `kind` is its registry id.   *)
(* Variables of a variant the entity is not are held at a fixed value.     *)
(***************************************************************************)
EXTENDS Integers, Sequences, FiniteSets

VARIABLES
    kind,            \* systemRegistry id of the entity
    width, height,   \* GenerativeSystem.width / height (viewport, pixels)
    iteration,       \* GenerativeSystem.iteration
    cellSize,        \* ConwayLife.cellSize (= params.cellSize)
    initialDensity,  \* ConwayLife.params.initialDensity, in hundredths
    rows, cols,      \* ConwayLife.rows / cols
    grid, nextGrid,  \* ConwayLife.grid / nextGrid, 0-based [row][col]
    gridRef, nextGridRef,  \* the array objects this.grid and this.nextGrid
                     \* refer to: the handle of the matrix and of each row
    population,      \* ConwayLife.population
    axiom,           \* LSystemBase.params.axiom, a sequence of symbols
    rules,           \* LSystemBase.params.rules, symbol -> replacement
    iterations,      \* LSystemBase.params.iterations, the requested count
    angle,           \* LSystemBase.params.angle, in hundredths of a degree
    randomness,      \* LSystemBase.params.randomness, in hundredths
    currentString,   \* LSystemBase.currentString, as the number of
                     \* occurrences of each symbol in it
    effectiveIterations,  \* LSystemBase.effectiveIterations
    agents,          \* SlimeMold.agents, each [x, y, angle]: x and y in
                     \* hundredths of a pixel, angle in units of 5 degrees
    agentCount,      \* SlimeMold.params.agentCount
    moveSpeed,       \* SlimeMold.params.moveSpeed, hundredths of a pixel
    turnSpeed,       \* SlimeMold.params.turnSpeed, units of 5 degrees
    sensorAngle,     \* SlimeMold.params.sensorAngle, units of 5 degrees
    sensorDistance,  \* SlimeMold.params.sensorDistance, hundredths of a pixel
    needsBufferUpdate,  \* SlimeMold.needsBufferUpdate
    trailMapData,    \* SlimeMold.trailMapData: "null" or "imageData"
    imageData,       \* CanvasRenderer.imageData.data, the RGBA bytes from
                     \* index 0, or << >> while the renderer has no buffer
    depositionBatches,  \* the agentDepositions arrays the last operation
                     \* handed to renderer.updateAgentTrails, in order
    currentSystem,   \* the driver's currentSystem: "null" or "entity"
    isRunning,       \* the driver's isRunning
    animationFrameId,  \* the driver's animationFrameId, 0 for null
    pendingFrames,   \* the ids of the animationLoop callbacks the browser
                     \* holds for the next frame
    stepCalls,       \* the number of step() calls the driver has issued
    stepError,       \* the last step() call threw and neither play / pause
                     \* nor step was clicked since
    fadePasses,      \* the number of fadeTrails() passes the renderer has run
                     \* over the trail field since the last step() of a swarm
    symbols,         \* LSystemBase.currentString symbol by symbol, held
                     \* where the interpreter is modelled (SpecTurtle)
    lines            \* LSystemBase.lines, the segments in the order drawn

baseVars == <<kind, width, height, iteration>>
caVars == <<cellSize, initialDensity, rows, cols, grid, nextGrid, gridRef, nextGridRef,
            population>>
lsVars == <<axiom, rules, iterations, angle, randomness, currentString, effectiveIterations>>
swarmState == <<agents, agentCount, moveSpeed, turnSpeed, sensorAngle, sensorDistance,
                needsBufferUpdate, trailMapData, imageData>>
agVars == <<swarmState, depositionBatches>>
drVars == <<currentSystem, isRunning, animationFrameId, pendingFrames, stepCalls, stepError,
            fadePasses>>
tuVars == <<symbols, lines>>

----------------------------------------------------------------------------
(* Bounds of the model *)

\* viewport widths and heights are 0..MaxView pixels
MaxView == 2
\* step() is not taken once the iteration counter has reached MaxIteration
MaxIteration == 2
\* largest row or column count of a grid the stepping specification starts from
MaxDim == 3
\* largest cell count of a grid the stepping specification starts from
MaxCells == 9
\* largest iteration count requested of an L-system
MaxRequested == 8
\* largest agent count requested of a swarm
MaxAgents == 2
\* largest number of step() calls the driver issues
MaxStepCalls == 3
\* longest string whose interpretation is followed symbol by symbol
MaxSymbols == 28
\* largest number of fadeTrails() passes counted between two swarm steps
MaxFadePasses == 2

----------------------------------------------------------------------------
(* JavaScript numbers: integers, and NaN as a value apart from all of them *)

NaN == -1000000

IsNaN(v) == v = NaN

\* Infinity, a value above every number of the model
Infinity == 1000000

\* Math.max(a, b): NaN if either argument is NaN
MathMax(a, b) == IF IsNaN(a) \/ IsNaN(b) THEN NaN ELSE IF a >= b THEN a ELSE b

\* Math.min(a, b): NaN if either argument is NaN
MathMin(a, b) == IF IsNaN(a) \/ IsNaN(b) THEN NaN ELSE IF a <= b THEN a ELSE b

\* Math.floor(a / b) for a >= 0 and b >= 1, NaN if either is NaN
FloorDiv(a, b) == IF IsNaN(a) \/ IsNaN(b) THEN NaN ELSE a \div b

\* a < b: false when either side is NaN
Less(a, b) == ~IsNaN(a) /\ ~IsNaN(b) /\ a < b

\* a >= b: false when either side is NaN
GreaterEq(a, b) == ~IsNaN(a) /\ ~IsNaN(b) /\ a >= b

Digits == <<"0", "1", "2", "3", "4", "5", "6", "7", "8", "9">>

IsDigit(c) == \E i \in 1..10 : Digits[i] = c

DigitVal(c) == (CHOOSE i \in 1..10 : Digits[i] = c) - 1

RECURSIVE ParseDigits(_, _)
\* value of the longest prefix of decimal digits of s, onto acc
ParseDigits(s, acc) ==
    IF s = << >> \/ ~IsDigit(Head(s)) THEN acc
    ELSE ParseDigits(Tail(s), acc * 10 + DigitVal(Head(s)))

\* parseInt(value): an optional sign, then the longest run of digits; NaN if
\* there is no digit
ParseInt(s) ==
    LET signed == s # << >> /\ Head(s) \in {"-", "+"}
        body == IF signed THEN Tail(s) ELSE s
    IN  IF body = << >> \/ ~IsDigit(Head(body)) THEN NaN
        ELSE IF signed /\ Head(s) = "-" THEN 0 - ParseDigits(body, 0)
        ELSE ParseDigits(body, 0)

RECURSIVE SkipDigits(_)
SkipDigits(s) == IF s = << >> \/ ~IsDigit(Head(s)) THEN s ELSE SkipDigits(Tail(s))

\* the literal parseFloat reads as Infinity
InfinityLiteral == <<"I", "n", "f", "i", "n", "i", "t", "y">>

\* parseFloat(value) in hundredths: sign, digits, and after a "." the first
\* two decimals; Infinity for its literal; NaN if no digit starts the number
ParseFloat(s) ==
    IF s = InfinityLiteral THEN Infinity ELSE
    LET signed == s # << >> /\ Head(s) \in {"-", "+"}
        body == IF signed THEN Tail(s) ELSE s
        rest == SkipDigits(body)
        frac == IF rest # << >> /\ Head(rest) = "." THEN Tail(rest) ELSE << >>
        d1 == IF frac # << >> /\ IsDigit(Head(frac)) THEN DigitVal(Head(frac)) ELSE 0
        d2 == IF Len(frac) >= 2 /\ IsDigit(frac[1]) /\ IsDigit(frac[2])
              THEN DigitVal(frac[2]) ELSE 0
        hasInt == body # << >> /\ IsDigit(Head(body))
        hasFrac == frac # << >> /\ IsDigit(Head(frac))
        mag == ParseDigits(body, 0) * 100 + d1 * 10 + d2
    IN  IF ~hasInt /\ ~hasFrac THEN NaN
        ELSE IF signed /\ Head(s) = "-" THEN 0 - mag ELSE mag

----------------------------------------------------------------------------
(* Grid automata: systems/cellular_automata.js *)

CAKinds == {"ca_life", "ca_brain"}

\* params.cellSize of the constructor
DefaultCellSize == 10
\* params.initialDensity of the ConwayLife constructor, in hundredths
LifeDensity == 25
\* params.initialDensity of the BrianBrain constructor, in hundredths
BrainDensity == 35

\* the arrays one call of createGrid(rows, cols) allocates: a matrix and a row
\* array for each of its rows, none of them an array that existed before;
\* t tells the call from the one whose arrays are still held
createGridObject(t, r) ==
    [matrix |-> t,
     rows |-> IF IsNaN(r) THEN << >> ELSE [y \in 0..(r - 1) |-> <<t, y>>]]

\* createGrid(rows, cols): Array.from({length: NaN}) is the empty array
createGrid(r, c) ==
    IF IsNaN(r) THEN << >>
    ELSE [y \in 0..(r - 1) |-> [x \in 0..(c - 1) |-> 0]]

\* calculateGridDimensions(): the cols and rows for a viewport and cell size
calculateGridDimensions(w, h, cs) ==
    [cols |-> MathMax(1, FloorDiv(w, cs)), rows |-> MathMax(1, FloorDiv(h, cs))]

\* the cells of an r x c grid in the order of the nested y / x loops
RowMajor(r, c) ==
    IF IsNaN(r) \/ IsNaN(c) THEN << >>
    ELSE [k \in 1..(r * c) |-> <<(k - 1) \div c, (k - 1) % c>>]

\* the (dx, dy) pairs in the order of the nested dy / dx loops, (0,0) skipped
Offsets ==
    << <<-1, -1>>, <<0, -1>>, <<1, -1>>,
       <<-1, 0>>,             <<1, 0>>,
       <<-1, 1>>,  <<0, 1>>,  <<1, 1>> >>

RECURSIVE SumNeighborsNoWrap(_, _, _, _, _, _)
\* countNeighbors with the edges closed: an offset that leaves the grid counts 0
SumNeighborsNoWrap(g, r, c, x, y, offs) ==
    IF offs = << >> THEN 0
    ELSE LET nx == x + Head(offs)[1]
             ny == y + Head(offs)[2]
         IN  (IF nx \in 0..(c - 1) /\ ny \in 0..(r - 1) THEN g[ny][nx] ELSE 0)
             + SumNeighborsNoWrap(g, r, c, x, y, Tail(offs))

RECURSIVE SumNeighbors(_, _, _, _, _, _)
\* ConwayLife.countNeighbors' loop: count += grid[ny][nx]
SumNeighbors(g, r, c, x, y, offs) ==
    IF offs = << >> THEN 0
    ELSE LET nx == (x + Head(offs)[1] + c) % c
             ny == (y + Head(offs)[2] + r) % r
         IN  g[ny][nx] + SumNeighbors(g, r, c, x, y, Tail(offs))

RECURSIVE CountFiring(_, _, _, _, _, _)
\* BrianBrain.countNeighbors' loop: count++ when grid[ny][nx] === 1
CountFiring(g, r, c, x, y, offs) ==
    IF offs = << >> THEN 0
    ELSE LET nx == (x + Head(offs)[1] + c) % c
             ny == (y + Head(offs)[2] + r) % r
         IN  (IF g[ny][nx] = 1 THEN 1 ELSE 0) + CountFiring(g, r, c, x, y, Tail(offs))

\* countNeighbors without the skip of (0, 0): the cell counts itself
countNeighborsWithSelf(k, g, r, c, x, y) ==
    (IF k = "ca_brain" THEN CountFiring(g, r, c, x, y, Offsets)
     ELSE SumNeighbors(g, r, c, x, y, Offsets))
    + (IF g[y][x] = 1 THEN 1 ELSE 0)

\* countNeighbors(x, y) of the variant k on grid g with r rows and c cols
countNeighbors(k, g, r, c, x, y) ==
    IF k = "ca_brain" THEN CountFiring(g, r, c, x, y, Offsets)
    ELSE SumNeighbors(g, r, c, x, y, Offsets)

\* the Life rule with the crowding test off by one: a live cell with 3 dies
LifeNextStateCrowded(state, neighbors) ==
    IF state = 1 /\ (neighbors < 2 \/ neighbors >= 3) THEN 0
    ELSE IF state = 0 /\ neighbors = 3 THEN 1
    ELSE state

\* the body of ConwayLife.step's loop: the next state of a cell
LifeNextState(state, neighbors) ==
    IF state = 1 /\ (neighbors < 2 \/ neighbors > 3) THEN 0
    ELSE IF state = 0 /\ neighbors = 3 THEN 1
    ELSE state

\* the Brian's Brain rule firing on 2 or more firing neighbours
BrainNextStateAtLeast(g, r, c, x, y) ==
    LET state == g[y][x]
    IN  IF state = 1 THEN 2
        ELSE IF state = 2 THEN 0
        ELSE IF state = 0 /\ CountFiring(g, r, c, x, y, Offsets) >= 2 THEN 1
        ELSE state

\* the body of BrianBrain.step's loop: the next state of the cell (x, y) of g
BrainNextState(g, r, c, x, y) ==
    LET state == g[y][x]
    IN  IF state = 1 THEN 2
        ELSE IF state = 2 THEN 0
        ELSE IF state = 0 /\ countNeighbors("ca_brain", g, r, c, x, y) = 2 THEN 1
        ELSE state

\* the next state of the cell (x, y) as the step of variant k computes it,
\* reading the buffer src
NextState(k, src, r, c, x, y) ==
    IF k = "ca_brain" THEN BrainNextState(src, r, c, x, y)
    ELSE LifeNextState(src[y][x], countNeighbors(k, src, r, c, x, y))

RECURSIVE StepLoopInPlace(_, _, _, _, _, _, _)
\* the loops of step() on one buffer: each cell is written where the later
\* cells read
StepLoopInPlace(k, src, dst, pop, r, c, cells) ==
    IF cells = << >> THEN [src |-> src, dst |-> src, population |-> pop]
    ELSE LET y == Head(cells)[1]
             x == Head(cells)[2]
             ns == IF k = "ca_brain"
                   THEN (IF src[y][x] = 1 THEN 2
                         ELSE IF src[y][x] = 2 THEN 0
                         ELSE IF CountFiring(src, r, c, x, y, Offsets) = 2 THEN 1 ELSE 0)
                   ELSE (IF src[y][x] = 1 /\ (SumNeighbors(src, r, c, x, y, Offsets) < 2
                                              \/ SumNeighbors(src, r, c, x, y, Offsets) > 3) THEN 0
                         ELSE IF src[y][x] = 0 /\ SumNeighbors(src, r, c, x, y, Offsets) = 3 THEN 1
                         ELSE src[y][x])
         IN  StepLoopInPlace(k, [src EXCEPT ![y][x] = ns], dst,
                             IF ns = 1 THEN pop + 1 ELSE pop, r, c, Tail(cells))

RECURSIVE StepLoop(_, _, _, _, _, _, _)
\* the nested loops of step(): the cells are visited in the order `cells`,
\* each read from src (this.grid) and written to dst (this.nextGrid)
StepLoop(k, src, dst, pop, r, c, cells) ==
    IF cells = << >> THEN [src |-> src, dst |-> dst, population |-> pop]
    ELSE LET y == Head(cells)[1]
             x == Head(cells)[2]
             ns == NextState(k, src, r, c, x, y)
         IN  StepLoop(k, src, [dst EXCEPT ![y][x] = ns],
                      IF ns = 1 THEN pop + 1 ELSE pop, r, c, Tail(cells))

RECURSIVE SumSeq(_)
SumSeq(s) == IF s = << >> THEN 0 ELSE Head(s) + SumSeq(Tail(s))

\* grid.flat(): the cells of g, row after row
Flat(g) ==
    LET r == Cardinality(DOMAIN g)
        c == IF r = 0 THEN 0 ELSE Cardinality(DOMAIN g[0])
    IN  [i \in 1..(r * c) |-> g[(i - 1) \div c][(i - 1) % c]]

\* calculatePopulation() without BrianBrain's override: the sum of the cells
calculatePopulationSum(k, g) == SumSeq(Flat(g))

\* calculatePopulation(): ConwayLife sums the cells, BrianBrain counts the 1s
calculatePopulation(k, g) ==
    IF k = "ca_brain"
    THEN SumSeq([i \in DOMAIN Flat(g) |-> IF Flat(g)[i] = 1 THEN 1 ELSE 0])
    ELSE SumSeq(Flat(g))

\* the grids randomize(density) can leave: a cell is 1 iff Math.random(), which
\* is in [0, 1), is below the density
Randomized(r, c, density) ==
    IF IsNaN(r) THEN {<< >>}
    ELSE IF IsNaN(density) \/ density <= 0 THEN {createGrid(r, c)}
    ELSE IF density >= 100 THEN {[y \in 0..(r - 1) |-> [x \in 0..(c - 1) |-> 1]]}
    ELSE [0..(r - 1) -> [0..(c - 1) -> {0, 1}]]

\* toggleCell(canvasX, canvasY) with BrianBrain's cycle left unwrapped
toggleCellIncrementing(k, g, r, c, cs, canvasX, canvasY) ==
    LET gridX == FloorDiv(canvasX, cs)
        gridY == FloorDiv(canvasY, cs)
    IN  IF GreaterEq(gridY, 0) /\ Less(gridY, r) /\ GreaterEq(gridX, 0) /\ Less(gridX, c)
        THEN [g EXCEPT ![gridY][gridX] =
                 IF k = "ca_brain" THEN g[gridY][gridX] + 1
                 ELSE 1 - g[gridY][gridX]]
        ELSE g

\* toggleCell(canvasX, canvasY) with BrianBrain's cycle for either variant
toggleCellCycling(k, g, r, c, cs, canvasX, canvasY) ==
    LET gridX == FloorDiv(canvasX, cs)
        gridY == FloorDiv(canvasY, cs)
    IN  IF GreaterEq(gridY, 0) /\ Less(gridY, r) /\ GreaterEq(gridX, 0) /\ Less(gridX, c)
        THEN [g EXCEPT ![gridY][gridX] = (g[gridY][gridX] + 1) % 3]
        ELSE g

\* toggleCell(canvasX, canvasY): the grid after the toggle
toggleCell(k, g, r, c, cs, canvasX, canvasY) ==
    LET gridX == FloorDiv(canvasX, cs)
        gridY == FloorDiv(canvasY, cs)
    IN  IF GreaterEq(gridY, 0) /\ Less(gridY, r) /\ GreaterEq(gridX, 0) /\ Less(gridX, c)
        THEN [g EXCEPT ![gridY][gridX] =
                 IF k = "ca_brain" THEN (g[gridY][gridX] + 1) % 3
                 ELSE 1 - g[gridY][gridX]]
        ELSE g

\* the grid onResize would build without its copy loops: a fresh r x c grid
ResizedCleared(oldGrid, r, c) == createGrid(r, c)

\* the grid onResize builds: a fresh r x c grid with the top-left overlap of
\* oldGrid copied in
Resized(oldGrid, r, c) ==
    LET oldRows == Cardinality(DOMAIN oldGrid)
        oldCols == IF oldRows = 0 THEN 0 ELSE Cardinality(DOMAIN oldGrid[0])
        copyRows == MathMin(oldRows, r)
        copyCols == MathMin(oldCols, c)
    IN  IF IsNaN(r) THEN << >>
        ELSE [y \in 0..(r - 1) |-> [x \in 0..(c - 1) |->
                 IF Less(y, copyRows) /\ Less(x, copyCols) THEN oldGrid[y][x] ELSE 0]]

----------------------------------------------------------------------------
(* Inputs *)

\* viewport sizes handed to the constructor and to onResize
ViewSizes == 0..MaxView

\* canvas coordinates handed to the pointer hooks
Coords == 0..MaxView

\* values handed to setParamValue: numerals and text that is no number
ParamValues ==
    { <<"1">>, <<"2">>, <<"0">>, <<"-", "3">>, <<"2", ".", "7">>,
      <<"0", ".", "5">>, <<"a", "b", "c">>, << >> }

\* parameter ids handed to setParamValue
ParamIds == {"cellSize", "initialDensity", "zoom"}

\* action ids handed to triggerAction
ActionIds == {"randomizeBtn", "zoom"}

----------------------------------------------------------------------------
(* ConwayLife / BrianBrain operations *)

\* new ConwayLife(w, h) / new BrianBrain(w, h); the BrianBrain constructor
\* ends with reset(), which randomizes with its density of 0.35
CAConstructed(k, w, h) ==
    LET d == calculateGridDimensions(w, h, DefaultCellSize)
    IN  /\ kind = k
        /\ width = w
        /\ height = h
        /\ iteration = 0
        /\ cellSize = DefaultCellSize
        /\ initialDensity = (IF k = "ca_brain" THEN BrainDensity ELSE LifeDensity)
        /\ rows = d.rows
        /\ cols = d.cols
        /\ grid \in (IF k = "ca_brain" THEN Randomized(d.rows, d.cols, BrainDensity)
                     ELSE {createGrid(d.rows, d.cols)})
        /\ nextGrid = createGrid(d.rows, d.cols)
        /\ gridRef = createGridObject(1, d.rows)
        /\ nextGridRef = createGridObject(2, d.rows)
        /\ population = calculatePopulation(k, grid)

\* reset(randomize) with this.nextGrid = this.grid for the second buffer
ResetToAliasing(randomize) ==
    /\ iteration' = 0
    /\ grid' \in (IF randomize THEN Randomized(rows, cols, initialDensity)
                  ELSE {createGrid(rows, cols)})
    /\ nextGrid' = grid'
    /\ gridRef' = createGridObject(1, rows)
    /\ nextGridRef' = gridRef'
    /\ population' = calculatePopulation(kind, grid')

\* reset(randomize) without the call of super.reset()
ResetToKeepingCount(randomize) ==
    /\ iteration' = iteration
    /\ grid' \in (IF randomize THEN Randomized(rows, cols, initialDensity)
                  ELSE {createGrid(rows, cols)})
    /\ nextGrid' = createGrid(rows, cols)
    /\ gridRef' = createGridObject(1, rows)
    /\ nextGridRef' = createGridObject(2, rows)
    /\ population' = calculatePopulation(kind, grid')

\* reset(randomize) on the current dimensions
ResetTo(randomize) ==
    /\ iteration' = 0
    /\ grid' \in (IF randomize THEN Randomized(rows, cols, initialDensity)
                  ELSE {createGrid(rows, cols)})
    /\ nextGrid' = createGrid(rows, cols)
    /\ gridRef' = createGridObject(1, rows)
    /\ nextGridRef' = createGridObject(2, rows)
    /\ population' = calculatePopulation(kind, grid')

\* reset(): the driver's call, randomize defaulting to true
Reset ==
    /\ kind \in CAKinds
    /\ ResetTo(TRUE)
    /\ UNCHANGED <<kind, width, height, cellSize, initialDensity, rows, cols>>

\* step(): the loops over the cells, the buffer swap, iteration++
Step ==
    /\ kind \in CAKinds
    /\ iteration < MaxIteration
    /\ LET r == StepLoop(kind, grid, nextGrid, 0, rows, cols, RowMajor(rows, cols))
       IN  /\ grid' = r.dst
           /\ nextGrid' = r.src
           /\ gridRef' = nextGridRef
           /\ nextGridRef' = gridRef
           /\ population' = r.population
    /\ iteration' = iteration + 1
    /\ UNCHANGED <<kind, width, height, cellSize, initialDensity, rows, cols>>

\* the body shared by handleMouseDown and handleMouseMove
Toggle(x, y) ==
    /\ grid' = toggleCell(kind, grid, rows, cols, cellSize, x, y)
    /\ population' = calculatePopulation(kind, grid')
    /\ UNCHANGED <<baseVars, cellSize, initialDensity, rows, cols, nextGrid, gridRef,
                   nextGridRef>>

\* handleMouseDown(x, y)
HandleMouseDown == \E x \in Coords, y \in Coords : kind \in CAKinds /\ Toggle(x, y)

\* handleMouseMove(x, y)
HandleMouseMove == \E x \in Coords, y \in Coords : kind \in CAKinds /\ Toggle(x, y)

\* onResize(w, h)
OnResize ==
    \E w \in ViewSizes, h \in ViewSizes :
        LET d == calculateGridDimensions(w, h, cellSize)
        IN  /\ kind \in CAKinds
            /\ width' = w
            /\ height' = h
            /\ rows' = d.rows
            /\ cols' = d.cols
            /\ grid' = Resized(grid, d.rows, d.cols)
            /\ nextGrid' = createGrid(d.rows, d.cols)
            /\ gridRef' = createGridObject(1, d.rows)
            /\ nextGridRef' = createGridObject(2, d.rows)
            /\ population' = calculatePopulation(kind, grid')
            /\ UNCHANGED <<kind, iteration, cellSize, initialDensity>>

\* setParamValue('cellSize', value): the new cell size, onResize(width, height),
\* then reset(false)
SetCellSize(value) ==
    LET cs == MathMax(1, ParseInt(value))
        d == calculateGridDimensions(width, height, cs)
    IN  /\ cellSize' = cs
        /\ rows' = d.rows
        /\ cols' = d.cols
        /\ grid' = createGrid(d.rows, d.cols)
        /\ nextGrid' = createGrid(d.rows, d.cols)
        /\ gridRef' = createGridObject(1, d.rows)
        /\ nextGridRef' = createGridObject(2, d.rows)
        /\ population' = calculatePopulation(kind, grid')
        /\ iteration' = 0
        /\ UNCHANGED <<kind, width, height, initialDensity>>

\* setParamValue(paramId, value); BrianBrain's override handles cellSize only
LifeSetParamValue(paramId, value) ==
    /\ kind \in CAKinds
    /\ IF paramId = "cellSize" THEN SetCellSize(value)
       ELSE IF paramId = "initialDensity" /\ kind = "ca_life"
       THEN /\ initialDensity' = ParseFloat(value)
            /\ UNCHANGED <<baseVars, cellSize, rows, cols, grid, nextGrid, gridRef,
                           nextGridRef, population>>
       ELSE UNCHANGED <<baseVars, caVars>>

\* setParamValue with the ids and values the driver can hand it
SetParamValue == \E id \in ParamIds, value \in ParamValues : LifeSetParamValue(id, value)

\* triggerAction(actionId)
TriggerAction ==
    \E id \in ActionIds :
        /\ kind \in CAKinds
        /\ IF id = "randomizeBtn"
           THEN /\ ResetTo(TRUE)
                /\ UNCHANGED <<kind, width, height, cellSize, initialDensity, rows, cols>>
           ELSE UNCHANGED <<baseVars, caVars>>

----------------------------------------------------------------------------
(* L-systems: systems/l_system.js *)

LSKinds == {"l_system_tree", "l_system_koch"}

\* the symbols of the strings
Symbols == {"F", "X", "+", "-", "[", "]"}

\* the string length above which generateSystem stops early
LengthCap == 100000

\* params.iterations of the LSystemTree and KochSnowflake constructors
DefaultIterations == 4

\* params.angle of the two constructors, in hundredths of a degree
TreeAngle == 2250
KochAngle == 6000

\* params.randomness of the LSystemTree constructor, in hundredths
TreeRandomness == 15

\* params.axiom and params.rules of the LSystemTree constructor
TreeAxiom == <<"X">>
TreeRuleX ==
    <<"F", "-", "[", "[", "X", "]", "+", "X", "]", "+", "F", "[", "+", "F", "X", "]", "-", "X">>
TreeRuleF == <<"F", "F">>
TreeRules == [c \in {"X", "F"} |-> IF c = "X" THEN TreeRuleX ELSE TreeRuleF]

\* params.axiom and params.rules of the KochSnowflake constructor
KochAxiom == <<"F", "+", "+", "F", "+", "+", "F">>
KochRuleF == <<"F", "-", "F", "+", "+", "F", "-", "F">>
KochRules == [c \in {"F"} |-> KochRuleF]

\* the symbols in the order in which a string's counts are held
SymbolOrder == <<"F", "X", "+", "-", "[", "]">>

\* the number of occurrences of the symbol c in the string str
Occurrences(str, c) == Cardinality({i \in DOMAIN str : str[i] = c})

\* the number of occurrences of each symbol in the string str
CountsOf(str) ==
    << Occurrences(str, SymbolOrder[1]), Occurrences(str, SymbolOrder[2]),
       Occurrences(str, SymbolOrder[3]), Occurrences(str, SymbolOrder[4]),
       Occurrences(str, SymbolOrder[5]), Occurrences(str, SymbolOrder[6]) >>

\* string.length of a string held as its symbol counts
Length(counts) == counts[1] + counts[2] + counts[3] + counts[4] + counts[5] + counts[6]

\* this.params.rules[char] || char: an absent rule and an empty replacement
\* both leave the symbol itself
Replacement(rs, char) ==
    IF char \in DOMAIN rs /\ rs[char] # << >> THEN rs[char] ELSE <<char>>

\* the occurrences of the symbol c in the concatenation of the replacements
\* of the symbols of str
Rewritten(rs, str, c) ==
    str[1] * Occurrences(Replacement(rs, SymbolOrder[1]), c)
    + str[2] * Occurrences(Replacement(rs, SymbolOrder[2]), c)
    + str[3] * Occurrences(Replacement(rs, SymbolOrder[3]), c)
    + str[4] * Occurrences(Replacement(rs, SymbolOrder[4]), c)
    + str[5] * Occurrences(Replacement(rs, SymbolOrder[5]), c)
    + str[6] * Occurrences(Replacement(rs, SymbolOrder[6]), c)

\* one pass of the inner loop: tempString is the concatenation of the
\* replacements of the symbols of str, here as symbol counts
RewritePass(rs, str) ==
    << Rewritten(rs, str, SymbolOrder[1]), Rewritten(rs, str, SymbolOrder[2]),
       Rewritten(rs, str, SymbolOrder[3]), Rewritten(rs, str, SymbolOrder[4]),
       Rewritten(rs, str, SymbolOrder[5]), Rewritten(rs, str, SymbolOrder[6]) >>

RECURSIVE GenerateLoop(_, _, _, _, _)
\* the for loop of generateSystem from pass i on: cur is this.currentString,
\* eff this.effectiveIterations, n this.params.iterations
GenerateLoop(rs, cur, eff, i, n) ==
    IF ~Less(i, n) THEN [currentString |-> cur, effectiveIterations |-> eff]
    ELSE LET tempString == RewritePass(rs, cur)
         IN  IF Length(tempString) > LengthCap /\ i < n - 1
             THEN [currentString |-> tempString, effectiveIterations |-> i + 1]
             ELSE GenerateLoop(rs, tempString, n, i + 1, n)

\* generateSystem(): the string and the effective count it leaves
generateSystem(ax, rs, n, eff) == GenerateLoop(rs, CountsOf(ax), eff, 0, n)

\* reset() of an L-system with the parameters ax, rs, n
LSResetWith(ax, rs, n) ==
    LET g == generateSystem(ax, rs, n, effectiveIterations)
    IN  /\ iteration' = 0
        /\ currentString' = g.currentString
        /\ effectiveIterations' = g.effectiveIterations

\* new LSystemTree(w, h) / new KochSnowflake(w, h): the parameters, then reset()
LSConstructed(k, w, h) ==
    LET ax == IF k = "l_system_tree" THEN TreeAxiom ELSE KochAxiom
        rs == IF k = "l_system_tree" THEN TreeRules ELSE KochRules
        g == generateSystem(ax, rs, DefaultIterations, DefaultIterations)
    IN  /\ kind = k
        /\ width = w
        /\ height = h
        /\ iteration = 0
        /\ axiom = ax
        /\ rules = rs
        /\ iterations = DefaultIterations
        /\ angle = (IF k = "l_system_tree" THEN TreeAngle ELSE KochAngle)
        /\ randomness = (IF k = "l_system_tree" THEN TreeRandomness ELSE 0)
        /\ currentString = g.currentString
        /\ effectiveIterations = g.effectiveIterations

\* viewport sizes handed to an L-system
LSViewSizes == {0, MaxView}

\* reset()
LSReset ==
    /\ kind \in LSKinds
    /\ LSResetWith(axiom, rules, iterations)
    /\ UNCHANGED <<kind, width, height, axiom, rules, iterations, angle, randomness>>

\* step() inherited from GenerativeSystem: iteration++
LSStepCounting ==
    /\ kind \in LSKinds
    /\ iteration < MaxIteration
    /\ iteration' = iteration + 1
    /\ UNCHANGED <<kind, width, height, lsVars>>

\* step(): empty
LSStep ==
    /\ kind \in LSKinds
    /\ UNCHANGED <<baseVars, lsVars>>

\* onResize(newW, newH)
LSOnResize ==
    \E w \in LSViewSizes, h \in LSViewSizes :
        /\ kind \in LSKinds
        /\ width' = w
        /\ height' = h
        /\ LSResetWith(axiom, rules, iterations)
        /\ UNCHANGED <<kind, axiom, rules, iterations, angle, randomness>>

\* the decimal numeral of n, 0 <= n <= 99
Numeral(n) == IF n < 10 THEN <<Digits[n + 1]>> ELSE <<Digits[(n \div 10) + 1], Digits[(n % 10) + 1]>>

\* iteration counts handed to setParamValue: none, one, the largest and the one
\* before it, a negative one and text that is no number
IterationValues ==
    {Numeral(0), Numeral(1), Numeral(MaxRequested - 1), Numeral(MaxRequested),
     <<"-", "3">>, <<"a", "b", "c">>}

\* angles and randomness factors handed to setParamValue
FactorValues == {<<"0", ".", "5">>, <<"a", "b", "c">>}

\* axioms and replacements handed to setParamValue
StringValues == {<<"F">>, << >>}

\* parameter ids handed to an L-system's setParamValue
LSParamIds == {"rule_F", "rule_X", "iterations", "angle", "randomness", "axiom", "zoom"}

\* the key of a rule parameter: paramId.substring(5)
RuleKey(id) == IF id = "rule_F" THEN "F" ELSE "X"

\* the values the driver can hand setParamValue for the parameter id
LSParamValues(id) ==
    IF id = "iterations" THEN IterationValues
    ELSE IF id \in {"angle", "randomness"} THEN FactorValues
    ELSE StringValues

\* setParamValue(paramId, value): the parameter, then reset() unless the id is
\* unknown
LSystemSetParamValue(paramId, value) ==
    /\ kind \in LSKinds
    /\ IF paramId \in {"rule_F", "rule_X"}
       THEN LET rs == [c \in DOMAIN rules \cup {RuleKey(paramId)} |->
                          IF c = RuleKey(paramId) THEN value ELSE rules[c]]
            IN  /\ rules' = rs
                /\ LSResetWith(axiom, rs, iterations)
                /\ UNCHANGED <<kind, width, height, axiom, iterations, angle, randomness>>
       ELSE IF paramId = "iterations"
       THEN LET n == MathMax(0, ParseInt(value))
            IN  /\ iterations' = n
                /\ LSResetWith(axiom, rules, n)
                /\ UNCHANGED <<kind, width, height, axiom, rules, angle, randomness>>
       ELSE IF paramId = "angle"
       THEN /\ angle' = ParseFloat(value)
            /\ LSResetWith(axiom, rules, iterations)
            /\ UNCHANGED <<kind, width, height, axiom, rules, iterations, randomness>>
       ELSE IF paramId = "randomness"
       THEN /\ randomness' = ParseFloat(value)
            /\ LSResetWith(axiom, rules, iterations)
            /\ UNCHANGED <<kind, width, height, axiom, rules, iterations, angle>>
       ELSE IF paramId = "axiom"
       THEN /\ axiom' = value
            /\ LSResetWith(value, rules, iterations)
            /\ UNCHANGED <<kind, width, height, rules, iterations, angle, randomness>>
       ELSE UNCHANGED <<baseVars, lsVars>>

\* setParamValue with the ids and values the driver can hand it
LSSetParamValue ==
    \E id \in LSParamIds : \E value \in LSParamValues(id) : LSystemSetParamValue(id, value)

----------------------------------------------------------------------------
(* Slime-mold agents: systems/agent_system.js, and the renderer's trail      *)
(* buffer.  Lengths are in hundredths of a pixel and angles in units of 5    *)
(* degrees, held modulo a full turn; degreesToRadians is the helper of       *)
(* l_system.js.                                                              *)

\* hundredths of a pixel in a pixel
PixelScale == 100

\* angle units in a full turn
FullTurn == 72

\* params of the SlimeMold constructor
DefaultAgentCount == 5000
DefaultMoveSpeed == 120
DefaultTurnSpeed == 5
DefaultSensorAngle == 6
DefaultSensorDistance == 900
DepositionAmount == 4

\* params.randomSteerStrength, 0.1 rad, as the largest jitter in angle units
RandomSteerStrength == 1

\* what one deposition unit adds to the green channel
DepositionGain == 150

\* the alpha a deposition raises a pixel to
DepositionAlpha == 150

\* the largest value of a byte of the buffer
MaxByte == 255

\* 1000 * cos of 0, 5, ..., 90 degrees
CosTable ==
    <<1000, 996, 985, 966, 940, 906, 866, 819, 766, 707,
      643, 574, 500, 423, 342, 259, 174, 87, 0>>

\* 1000 * Math.cos(a)
Cos(a) ==
    LET m == a % FullTurn
    IN  IF m <= 18 THEN CosTable[m + 1]
        ELSE IF m <= 36 THEN 0 - CosTable[36 - m + 1]
        ELSE IF m <= 54 THEN 0 - CosTable[m - 36 + 1]
        ELSE CosTable[FullTurn - m + 1]

\* 1000 * Math.sin(a)
Sin(a) == Cos(a + FullTurn - 18)

\* n / d rounded toward zero
Quotient(n, d) == IF n >= 0 THEN n \div d ELSE 0 - ((0 - n) \div d)

\* a % b of JavaScript: the sign of a
JsMod(a, b) == IF a >= 0 THEN a % b ELSE 0 - ((0 - a) % b)

\* Math.cos(a) * len and Math.sin(a) * len
CosTimes(a, len) == Quotient(Cos(a) * len, 1000)
SinTimes(a, len) == Quotient(Sin(a) * len, 1000)

\* Agent.move(): one step of moveSpeed along the heading
move(agent, speed) ==
    [agent EXCEPT !.x = agent.x + CosTimes(agent.angle, speed),
                  !.y = agent.y + SinTimes(agent.angle, speed)]

\* one coordinate through the two ifs of wrapBounds
wrapCoordinate(v, size) ==
    LET v1 == IF v < 0 THEN v + size ELSE v
    IN  IF v1 >= size THEN v1 - size ELSE v1

\* Agent.wrapBounds(width, height)
wrapBounds(agent, w, h) ==
    [agent EXCEPT !.x = wrapCoordinate(agent.x, w * PixelScale),
                  !.y = wrapCoordinate(agent.y, h * PixelScale)]

\* Agent.sampleTrail(trailMap, mapWidth, x, y): the green byte of the pixel,
\* undefined (here NaN) when the index is past the end of the array
sampleTrail(trailMap, mapWidth, x, y) ==
    LET gridX == x \div PixelScale
        gridY == y \div PixelScale
        len == Cardinality(DOMAIN trailMap)
        index == (gridY * mapWidth + gridX) * 4 + 1
    IN  IF gridX < 0 \/ gridX >= mapWidth \/ gridY < 0 \/ gridY * mapWidth >= len
        THEN 0
        ELSE IF index \in DOMAIN trailMap THEN trailMap[index] ELSE NaN

\* a > b: false when either side is NaN
Greater(a, b) == ~IsNaN(a) /\ ~IsNaN(b) /\ a > b

\* the weight a sensor at the angle a from the agent samples
SensorWeight(agent, a, dist, trailMap, w, h) ==
    LET sX == JsMod(agent.x + CosTimes(a, dist) + w * PixelScale, w * PixelScale)
        sY == JsMod(agent.y + SinTimes(a, dist) + h * PixelScale, h * PixelScale)
    IN  sampleTrail(trailMap, w, sX, sY)

\* Agent.senseAndSteer(trailMap, width, height): the heading it leaves, for
\* the random jitter (in -1..1 times randomSteerStrength) and the coin drawn
senseAndSteer(agent, trailMap, w, h, dist, sAngle, turn, jitter, coin) ==
    LET weightForward == SensorWeight(agent, agent.angle, dist, trailMap, w, h)
        weightLeft == SensorWeight(agent, agent.angle + FullTurn - (sAngle % FullTurn),
                                   dist, trailMap, w, h)
        weightRight == SensorWeight(agent, agent.angle + sAngle, dist, trailMap, w, h)
        delta ==
            IF Greater(weightForward, weightLeft) /\ Greater(weightForward, weightRight)
            THEN jitter * RandomSteerStrength
            ELSE IF Greater(weightRight, weightLeft) THEN turn
            ELSE IF Greater(weightLeft, weightRight) THEN 0 - turn
            ELSE IF Greater(weightLeft, weightForward) /\ Greater(weightRight, weightForward)
            THEN coin * turn
            ELSE jitter * RandomSteerStrength
    IN  [agent EXCEPT !.angle = (agent.angle + delta + FullTurn * FullTurn) % FullTurn]

\* the body of the forEach of SlimeMold.step for one agent
StepAgent(agent, trailMap, w, h, speed, dist, sAngle, turn, jitter, coin) ==
    wrapBounds(move(senseAndSteer(agent, trailMap, w, h, dist, sAngle, turn, jitter, coin),
                    speed), w, h)

\* CanvasRenderer.clear() on the buffer: imageBuffer.fill(0)
clear(data) == [i \in DOMAIN data |-> 0]

RECURSIVE updateAgentTrails(_, _, _, _)
\* CanvasRenderer.updateAgentTrails(agentData) on a w x h buffer
updateAgentTrails(data, w, h, agentData) ==
    IF agentData = << >> THEN data
    ELSE LET d == Head(agentData)
             x == d.x \div PixelScale
             y == d.y \div PixelScale
             offset == (y * w + x) * 4
             green == IF data[offset + 1] + d.deposition * DepositionGain > MaxByte
                      THEN MaxByte ELSE data[offset + 1] + d.deposition * DepositionGain
             alpha == IF data[offset + 3] >= DepositionAlpha THEN data[offset + 3]
                      ELSE DepositionAlpha
         IN  IF x >= 0 /\ x < w /\ y >= 0 /\ y < h
             THEN updateAgentTrails([data EXCEPT ![offset + 1] = green, ![offset + 3] = alpha],
                                    w, h, Tail(agentData))
             ELSE updateAgentTrails(data, w, h, Tail(agentData))

\* ctx.createImageData(w, h).data: 4 zero bytes a pixel
createImageData(w, h) == [i \in 0..(w * h * 4 - 1) |-> 0]

\* headings drawn for a spawned agent, which faces the way it is displaced
SpawnAngles == {27}

\* the agents reset() can create on a w x h field: n of them, each on the
\* disk of radius 0.05 * min(w, h) about the centre
Spawned(n, w, h) ==
    LET spawnRadius == (IF w <= h THEN w ELSE h) * 5
        one == {[x |-> (w * PixelScale) \div 2 + CosTimes(a, r),
                 y |-> (h * PixelScale) \div 2 + SinTimes(a, r),
                 angle |-> a] : a \in SpawnAngles, r \in {0, spawnRadius - 1}}
    IN  [1..n -> one]

\* reset() with the agent count n on a w x h field
AgResetWith(n, w, h) ==
    /\ iteration' = 0
    /\ agents' \in Spawned(n, w, h)
    /\ needsBufferUpdate' = TRUE

\* reset()
AgReset ==
    /\ kind = "agent_slime"
    /\ AgResetWith(agentCount, width, height)
    /\ depositionBatches' = << >>
    /\ UNCHANGED <<kind, width, height, agentCount, moveSpeed, turnSpeed, sensorAngle,
                   sensorDistance, trailMapData, imageData>>

\* the random numbers one agent draws in senseAndSteer: no branch uses both
\* the jitter and the coin, so these three cover every outcome
Draws ==
    {[jitter |-> -1, coin |-> -1], [jitter |-> 0, coin |-> 1], [jitter |-> 1, coin |-> 1]}

RECURSIVE forEachInterleaved(_, _, _, _, _, _, _, _, _)
\* the forEach with each agent's deposition written as soon as it has moved,
\* where the agents after it sense
forEachInterleaved(ags, trailMap, w, h, speed, dist, sAngle, turn, draw) ==
    IF ags = << >> THEN << >>
    ELSE LET a == StepAgent(Head(ags), trailMap, w, h, speed, dist, sAngle, turn,
                            Head(draw).jitter, Head(draw).coin)
             written == updateAgentTrails(trailMap, w, h,
                            <<[x |-> a.x, y |-> a.y, deposition |-> DepositionAmount]>>)
         IN  <<a>> \o forEachInterleaved(Tail(ags), written, w, h, speed, dist, sAngle, turn,
                                         Tail(draw))

\* this.agents.forEach(...) of step(): every agent senses trailMap, steers,
\* moves and wraps; draw[i] holds the random numbers agent i draws
forEachAgent(ags, trailMap, w, h, speed, dist, sAngle, turn, draw) ==
    [i \in 1..Len(ags) |->
        StepAgent(ags[i], trailMap, w, h, speed, dist, sAngle, turn,
                  draw[i].jitter, draw[i].coin)]

\* the agentDepositions array step() collects: one record an agent
Depositions(ags) ==
    [i \in 1..Len(ags) |-> [x |-> ags[i].x, y |-> ags[i].y, deposition |-> DepositionAmount]]

\* step(renderer): skipped, but counted, without a renderer buffer; else the
\* buffer is cleared if a reset asked for it, every agent senses, steers,
\* moves and wraps, and the depositions go to the renderer in one batch
AgStep ==
    \E withRenderer \in BOOLEAN :
        /\ kind = "agent_slime"
        /\ iteration < MaxIteration
        /\ iteration' = iteration + 1
        /\ IF ~withRenderer \/ imageData = << >>
           THEN /\ depositionBatches' = << >>
                /\ UNCHANGED <<kind, width, height, agents, agentCount, moveSpeed, turnSpeed,
                               sensorAngle, sensorDistance, needsBufferUpdate, trailMapData,
                               imageData>>
           ELSE \E draw \in [1..Len(agents) -> Draws] :
                    LET data == IF needsBufferUpdate THEN clear(imageData) ELSE imageData
                        moved == forEachAgent(agents, data, width, height, moveSpeed,
                                              sensorDistance, sensorAngle, turnSpeed, draw)
                        agentDepositions == Depositions(moved)
                    IN  /\ needsBufferUpdate' = FALSE
                        /\ trailMapData' = "imageData"
                        /\ agents' = moved
                        /\ imageData' = updateAgentTrails(data, width, height, agentDepositions)
                        /\ depositionBatches' = <<agentDepositions>>
                        /\ UNCHANGED <<kind, width, height, agentCount, moveSpeed, turnSpeed,
                                       sensorAngle, sensorDistance>>

\* viewport sizes handed to a swarm
AgViewSizes == 1..MaxView

\* the driver's resize: onResize(w, h) of the swarm, which resets it, then the
\* renderer's onResize(), which prepares a fresh buffer
AgOnResize ==
    \E w \in AgViewSizes, h \in AgViewSizes :
        /\ kind = "agent_slime"
        /\ width' = w
        /\ height' = h
        /\ AgResetWith(agentCount, w, h)
        /\ depositionBatches' = << >>
        /\ imageData' = createImageData(w, h)
        /\ UNCHANGED <<kind, agentCount, moveSpeed, turnSpeed, sensorAngle, sensorDistance,
                       trailMapData>>

\* parameter ids handed to a swarm's setParamValue
AgParamIds == {"agentCount", "moveSpeed", "turnSpeed", "sensorAngle", "sensorDistance", "zoom"}

\* values handed to a swarm's setParamValue
AgParamValues(id) ==
    IF id = "agentCount"
    THEN {Numeral(n) : n \in 0..MaxAgents} \cup {<<"a", "b", "c">>, InfinityLiteral}
    ELSE IF id = "moveSpeed" THEN {<<"5">>, <<"a", "b", "c">>}
    ELSE IF id \in {"turnSpeed", "sensorAngle"} THEN {<<"4", "5">>, <<"a", "b", "c">>}
    ELSE {<<"0", ".", "5">>, <<"a", "b", "c">>}

\* parseInt(numValue) of a number in hundredths: the digits that start its
\* decimal string, none of which the string of Infinity has
ParseIntOfNumber(numValue) ==
    IF numValue = Infinity THEN NaN ELSE Quotient(numValue, 100)

\* degreesToRadians(degrees), from hundredths of a degree to angle units
degreesToRadians(degrees) == degrees \div 500

\* setParamValue(paramId, value) with needsReset set for moveSpeed as well
SlimeSetParamValueResetting(paramId, value) ==
    LET numValue == ParseFloat(value)
    IN  /\ kind = "agent_slime"
        /\ depositionBatches' = << >>
        /\ IF IsNaN(numValue) THEN UNCHANGED <<baseVars, swarmState>>
           ELSE IF paramId = "agentCount"
           THEN /\ agentCount' = MathMax(1, ParseIntOfNumber(numValue))
                /\ AgResetWith(agentCount', width, height)
                /\ UNCHANGED <<kind, width, height, moveSpeed, turnSpeed, sensorAngle,
                               sensorDistance, trailMapData, imageData>>
           ELSE IF paramId = "moveSpeed"
           THEN /\ moveSpeed' = MathMax(0, numValue)
                /\ AgResetWith(agentCount, width, height)
                /\ UNCHANGED <<kind, width, height, agentCount, turnSpeed, sensorAngle,
                               sensorDistance, trailMapData, imageData>>
           ELSE IF paramId = "turnSpeed"
           THEN /\ turnSpeed' = degreesToRadians(MathMax(0, numValue))
                /\ UNCHANGED <<baseVars, agents, agentCount, moveSpeed, sensorAngle,
                               sensorDistance, needsBufferUpdate, trailMapData, imageData>>
           ELSE IF paramId = "sensorAngle"
           THEN /\ sensorAngle' = degreesToRadians(MathMax(0, numValue))
                /\ UNCHANGED <<baseVars, agents, agentCount, moveSpeed, turnSpeed,
                               sensorDistance, needsBufferUpdate, trailMapData, imageData>>
           ELSE IF paramId = "sensorDistance"
           THEN /\ sensorDistance' = MathMax(PixelScale, numValue)
                /\ UNCHANGED <<baseVars, agents, agentCount, moveSpeed, turnSpeed,
                               sensorAngle, needsBufferUpdate, trailMapData, imageData>>
           ELSE UNCHANGED <<baseVars, swarmState>>

\* setParamValue(paramId, value)
SlimeSetParamValue(paramId, value) ==
    LET numValue == ParseFloat(value)
    IN  /\ kind = "agent_slime"
        /\ depositionBatches' = << >>
        /\ IF IsNaN(numValue) THEN UNCHANGED <<baseVars, swarmState>>
           ELSE IF paramId = "agentCount"
           THEN /\ agentCount' = MathMax(1, ParseIntOfNumber(numValue))
                /\ AgResetWith(agentCount', width, height)
                /\ UNCHANGED <<kind, width, height, moveSpeed, turnSpeed, sensorAngle,
                               sensorDistance, trailMapData, imageData>>
           ELSE IF paramId = "moveSpeed"
           THEN /\ moveSpeed' = MathMax(0, numValue)
                /\ UNCHANGED <<baseVars, agents, agentCount, turnSpeed, sensorAngle,
                               sensorDistance, needsBufferUpdate, trailMapData, imageData>>
           ELSE IF paramId = "turnSpeed"
           THEN /\ turnSpeed' = degreesToRadians(MathMax(0, numValue))
                /\ UNCHANGED <<baseVars, agents, agentCount, moveSpeed, sensorAngle,
                               sensorDistance, needsBufferUpdate, trailMapData, imageData>>
           ELSE IF paramId = "sensorAngle"
           THEN /\ sensorAngle' = degreesToRadians(MathMax(0, numValue))
                /\ UNCHANGED <<baseVars, agents, agentCount, moveSpeed, turnSpeed,
                               sensorDistance, needsBufferUpdate, trailMapData, imageData>>
           ELSE IF paramId = "sensorDistance"
           THEN /\ sensorDistance' = MathMax(PixelScale, numValue)
                /\ UNCHANGED <<baseVars, agents, agentCount, moveSpeed, turnSpeed,
                               sensorAngle, needsBufferUpdate, trailMapData, imageData>>
           ELSE UNCHANGED <<baseVars, swarmState>>

\* setParamValue with the ids and values the driver can hand it
AgSetParamValue ==
    \E id \in AgParamIds : \E value \in AgParamValues(id) : SlimeSetParamValue(id, value)

----------------------------------------------------------------------------
(* The factory and the driver: createSystemInstance, loadSystem, the          *)
(* animation loop and the simulation controls.  The entity is held by its    *)
(* class (kind) and its iteration counter.                                   *)

\* the ids of systemRegistry
RegistryIds == {"ca_life", "ca_brain", "l_system_tree", "l_system_koch", "agent_slime"}

\* the values of the system selector handed to loadSystem: the registry ids
\* and an id the registry does not hold
SelectorIds == RegistryIds \cup {"unknown"}

\* new SystemClass(width, height) throws: the SlimeMold constructor calls
\* degreesToRadians, which agent_system.js neither defines nor imports
constructorThrows(systemId) == systemId = "agent_slime"

\* createSystemInstance(systemId, width, height): the class of the instance
\* returned ("generic" for a plain GenerativeSystem), or "null"
createSystemInstance(systemId) ==
    IF systemId \in RegistryIds
    THEN (IF constructorThrows(systemId) THEN "null" ELSE systemId)
    ELSE "generic"

\* loadSystem(systemId)
LoadSystem ==
    \E systemId \in SelectorIds :
        LET instance == createSystemInstance(systemId)
        IN  /\ isRunning' = FALSE
            /\ currentSystem' = (IF instance = "null" THEN "null" ELSE "entity")
            /\ kind' = (IF instance = "null" THEN "none" ELSE instance)
            /\ iteration' = 0
            /\ UNCHANGED <<width, height, animationFrameId, pendingFrames, stepCalls, stepError>>

\* requestAnimationFrame(animationLoop): the id of the callback it queues
requestAnimationFrame(pending) == CHOOSE f \in 1..(Cardinality(pending) + 1) : f \notin pending

\* stepSimulation() with a catch that leaves isRunning as it is
stepSimulationRunningOn(throws) ==
    IF currentSystem = "null"
    THEN UNCHANGED <<iteration, stepCalls>> /\ isRunning' = isRunning /\ stepError' = stepError
    ELSE /\ stepCalls' = stepCalls + 1
         /\ stepError' = throws
         /\ isRunning' = isRunning
         /\ iteration' = (IF throws \/ kind \in LSKinds THEN iteration ELSE iteration + 1)

\* stepSimulation(): step() of the current entity inside try / catch; throws
\* says whether step() throws.  LSystemBase.step is empty.
stepSimulation(throws) ==
    IF currentSystem = "null"
    THEN UNCHANGED <<iteration, stepCalls>> /\ isRunning' = isRunning /\ stepError' = stepError
    ELSE /\ stepCalls' = stepCalls + 1
         /\ stepError' = throws
         /\ isRunning' = (IF throws THEN FALSE ELSE isRunning)
         /\ iteration' = (IF throws \/ kind \in LSKinds THEN iteration ELSE iteration + 1)

\* animationLoop(timestamp): the queued callback f runs; due says whether
\* deltaTime >= targetInterval
AnimationLoop ==
    \E f \in pendingFrames, due \in BOOLEAN, throws \in BOOLEAN :
        /\ animationFrameId' = requestAnimationFrame(pendingFrames \ {f})
        /\ pendingFrames' = (pendingFrames \ {f}) \cup {animationFrameId'}
        /\ IF isRunning /\ due THEN stepCalls < MaxStepCalls /\ stepSimulation(throws)
           ELSE UNCHANGED <<iteration, stepCalls, isRunning, stepError>>
        /\ UNCHANGED <<kind, width, height, currentSystem>>

\* click on the play / pause button with a startAnimationLoop() that requests
\* a frame whether or not one is already queued
PlayPauseClickAlwaysStarting ==
    /\ isRunning' = ~isRunning
    /\ IF isRunning'
       THEN /\ animationFrameId' = requestAnimationFrame(pendingFrames)
            /\ pendingFrames' = pendingFrames \cup {animationFrameId'}
       ELSE /\ animationFrameId' = 0
            /\ pendingFrames' = pendingFrames \ {animationFrameId}
    /\ stepError' = FALSE
    /\ UNCHANGED <<baseVars, currentSystem, stepCalls>>

\* click on the play / pause button
PlayPauseClick ==
    /\ isRunning' = ~isRunning
    /\ IF isRunning'
       THEN IF animationFrameId = 0
            THEN /\ animationFrameId' = requestAnimationFrame(pendingFrames)
                 /\ pendingFrames' = pendingFrames \cup {animationFrameId'}
            ELSE UNCHANGED <<animationFrameId, pendingFrames>>
       ELSE /\ animationFrameId' = 0
            /\ pendingFrames' = pendingFrames \ {animationFrameId}
    /\ stepError' = FALSE
    /\ UNCHANGED <<baseVars, currentSystem, stepCalls>>

\* click on the step button
StepClick ==
    \E throws \in BOOLEAN :
        /\ IF ~isRunning THEN stepCalls < MaxStepCalls /\ stepSimulation(throws)
           ELSE UNCHANGED <<iteration, stepCalls, isRunning, stepError>>
        /\ UNCHANGED <<kind, width, height, currentSystem, animationFrameId, pendingFrames>>

\* click on the reset button
ResetClick ==
    /\ IF currentSystem # "null"
       THEN isRunning' = FALSE /\ iteration' = 0
       ELSE UNCHANGED <<isRunning, iteration>>
    /\ UNCHANGED <<kind, width, height, currentSystem, animationFrameId, pendingFrames,
                   stepCalls, stepError>>

vars == <<baseVars, caVars, lsVars, agVars, drVars, tuVars>>

\* the entity is no L-system: its L-system fields do not exist
NoLSystem ==
    /\ axiom = << >>
    /\ rules = << >>
    /\ iterations = 0
    /\ angle = 0
    /\ randomness = 0
    /\ currentString = << >>
    /\ effectiveIterations = 0

\* the entity is no swarm: its swarm fields do not exist
NoSwarm ==
    /\ agents = << >>
    /\ agentCount = 0
    /\ moveSpeed = 0
    /\ turnSpeed = 0
    /\ sensorAngle = 0
    /\ sensorDistance = 0
    /\ needsBufferUpdate = FALSE
    /\ trailMapData = "null"
    /\ imageData = << >>
    /\ depositionBatches = << >>

\* the interpreter is not followed: string and segments are not held
NoLines ==
    /\ symbols = << >>
    /\ lines = << >>

\* the entity is driven by hand: the driver holds it and stands still
NoDriver ==
    /\ currentSystem = "entity"
    /\ isRunning = FALSE
    /\ animationFrameId = 0
    /\ pendingFrames = {}
    /\ stepCalls = 0
    /\ stepError = FALSE
    /\ fadePasses = 0

\* a grid automaton from its construction on, under every operation
InitCA ==
    /\ \E k \in CAKinds, w \in ViewSizes, h \in ViewSizes : CAConstructed(k, w, h)
    /\ NoLSystem
    /\ NoSwarm
    /\ NoDriver
    /\ NoLines

NextCA ==
    \/ Reset /\ UNCHANGED <<lsVars, agVars, drVars, tuVars>>
    \/ Step /\ UNCHANGED <<lsVars, agVars, drVars, tuVars>>
    \/ HandleMouseDown /\ UNCHANGED <<lsVars, agVars, drVars, tuVars>>
    \/ HandleMouseMove /\ UNCHANGED <<lsVars, agVars, drVars, tuVars>>
    \/ OnResize /\ UNCHANGED <<lsVars, agVars, drVars, tuVars>>
    \/ SetParamValue /\ UNCHANGED <<lsVars, agVars, drVars, tuVars>>
    \/ TriggerAction /\ UNCHANGED <<lsVars, agVars, drVars, tuVars>>

SpecCA == InitCA /\ [][NextCA]_vars

\* the cell states of a variant: Life 0..1, Brian's Brain 0..2
CellStates(k) == IF k = "ca_brain" THEN 0..2 ELSE 0..1

\* a grid automaton after setParamValue('cellSize', '1'), reset and pointer
\* toggles have left an arbitrary r x c grid; then stepped
InitStep ==
    \E k \in CAKinds, r \in 1..MaxDim, c \in 1..MaxDim :
        /\ r * c <= MaxCells
        /\ kind = k
        /\ width = c
        /\ height = r
        /\ iteration = 0
        /\ cellSize = 1
        /\ initialDensity = (IF k = "ca_brain" THEN BrainDensity ELSE LifeDensity)
        /\ rows = r
        /\ cols = c
        /\ grid \in [0..(r - 1) -> [0..(c - 1) -> CellStates(k)]]
        /\ nextGrid = createGrid(r, c)
        /\ gridRef = createGridObject(1, r)
        /\ nextGridRef = createGridObject(2, r)
        /\ population = calculatePopulation(k, grid)
        /\ NoLSystem
        /\ NoSwarm
        /\ NoDriver
    /\ NoLines

NextStep == Step /\ UNCHANGED <<lsVars, agVars, drVars, tuVars>>

SpecStep == InitStep /\ [][NextStep]_vars

\* the entity is no grid automaton: its grid fields do not exist
NoGrid ==
    /\ cellSize = 0
    /\ initialDensity = 0
    /\ rows = 0
    /\ cols = 0
    /\ grid = << >>
    /\ nextGrid = << >>
    /\ gridRef = createGridObject(0, 0)
    /\ nextGridRef = createGridObject(0, 0)
    /\ population = 0

\* an L-system from its construction on, under every operation
InitLS ==
    /\ \E k \in LSKinds, w \in LSViewSizes, h \in LSViewSizes : LSConstructed(k, w, h)
    /\ NoGrid
    /\ NoSwarm
    /\ NoDriver
    /\ NoLines

NextLS ==
    \/ LSReset /\ UNCHANGED <<caVars, agVars, drVars, tuVars>>
    \/ LSStep /\ UNCHANGED <<caVars, agVars, drVars, tuVars>>
    \/ LSOnResize /\ UNCHANGED <<caVars, agVars, drVars, tuVars>>
    \/ LSSetParamValue /\ UNCHANGED <<caVars, agVars, drVars, tuVars>>

SpecLS == InitLS /\ [][NextLS]_vars

\* a swarm after new SlimeMold(w, h) and setParamValue('agentCount', n), the
\* renderer with or without its pixel buffer; then under every operation
InitAgents ==
    /\ \E w \in AgViewSizes, h \in AgViewSizes, n \in 1..MaxAgents :
           /\ kind = "agent_slime"
           /\ width = w
           /\ height = h
           /\ iteration = 0
           /\ agentCount = n
           /\ agents \in Spawned(n, w, h)
           /\ imageData \in {<< >>, createImageData(w, h)}
    /\ moveSpeed = DefaultMoveSpeed
    /\ turnSpeed = DefaultTurnSpeed
    /\ sensorAngle = DefaultSensorAngle
    /\ sensorDistance = DefaultSensorDistance
    /\ needsBufferUpdate = TRUE
    /\ trailMapData = "null"
    /\ depositionBatches = << >>
    /\ NoGrid
    /\ NoLSystem
    /\ NoDriver
    /\ NoLines

NextAgents ==
    \/ AgReset /\ UNCHANGED <<caVars, lsVars, drVars, tuVars>>
    \/ AgStep /\ UNCHANGED <<caVars, lsVars, drVars, tuVars>>
    \/ AgOnResize /\ UNCHANGED <<caVars, lsVars, drVars, tuVars>>
    \/ AgSetParamValue /\ UNCHANGED <<caVars, lsVars, drVars, tuVars>>

SpecAgents == InitAgents /\ [][NextAgents]_vars

\* the driver after initialize(): the selector's first option loaded, the
\* animation loop started and paused; then under the selector, the controls
\* and the animation frames
InitDriver ==
    /\ currentSystem = "entity"
    /\ kind = createSystemInstance("ca_life")
    /\ width = MaxView
    /\ height = MaxView
    /\ iteration = 0
    /\ isRunning = FALSE
    /\ animationFrameId = 1
    /\ pendingFrames = {1}
    /\ stepCalls = 0
    /\ stepError = FALSE
    /\ fadePasses = 0
    /\ NoGrid
    /\ NoLSystem
    /\ NoSwarm
    /\ NoLines

NextDriver ==
    \/ LoadSystem /\ UNCHANGED <<caVars, lsVars, agVars, tuVars, fadePasses>>
    \/ AnimationLoop /\ UNCHANGED <<caVars, lsVars, agVars, tuVars, fadePasses>>
    \/ PlayPauseClick /\ UNCHANGED <<caVars, lsVars, agVars, tuVars, fadePasses>>
    \/ StepClick /\ UNCHANGED <<caVars, lsVars, agVars, tuVars, fadePasses>>
    \/ ResetClick /\ UNCHANGED <<caVars, lsVars, agVars, tuVars, fadePasses>>

SpecDriver == InitDriver /\ [][NextDriver]_vars

\* an animation frame that comes when the target interval has passed and
\* issues a step
DueFrame ==
    /\ AnimationLoop
    /\ stepCalls' # stepCalls
    /\ UNCHANGED <<caVars, lsVars, agVars, tuVars, fadePasses>>

\* the driver where the browser keeps calling the queued callback and time
\* passes: a frame that is due keeps coming while the simulation runs
SpecDriverLive == SpecDriver /\ WF_vars(DueFrame)

(* L-system strings symbol by symbol and their interpretation:              *)
(* LSystemTree.interpretSystem and KochSnowflake.interpretSystem.  Lengths, *)
(* coordinates, thicknesses and factors are in thousandths; angles in       *)
(* units of 5 degrees.                                                      *)

\* thousandths in a unit
TurtleScale == 1000

\* params.initialLengthFactor, lengthFactor, initialThickness and
\* thicknessFactor of the LSystemTree constructor
TreeInitialLengthFactor == 180
TreeLengthFactor == 550
TreeInitialThickness == 8000
TreeThicknessFactor == 650

\* Math.pow(lengthFactor, 0.5) of the tree: the square root of 0.55
TreeHalfPower == 742

\* the smallest thickness of a tree segment: Math.max(0.4, thickness)
TreeMinThickness == 400

\* params.lengthFactor, initialThickness and thicknessFactor of the
\* KochSnowflake constructor
KochLengthFactor == 333
KochInitialThickness == 2000
KochThicknessFactor == 1000

\* Math.pow(3, 0.8)
KochShrink == 2408

\* the share of the width a Koch curve uses, and its start as shares of the
\* width and the height
KochUsableWidth == 600
KochStartX == 200
KochStartY == 700

\* -Math.PI / 2, the heading of the tree's turtle at the start
TreeInitialAngle == -18

\* v * factor for a factor in thousandths
Times(v, factor) == Quotient(v * factor, TurtleScale)

RECURSIVE TimesPower(_, _, _)
\* v * factor^times
TimesPower(v, factor, times) ==
    IF times <= 0 THEN v ELSE TimesPower(Times(v, factor), factor, times - 1)

RECURSIVE OverPower(_, _, _)
\* v / divisor^times
OverPower(v, divisor, times) ==
    IF times <= 0 THEN v ELSE OverPower(Quotient(v * TurtleScale, divisor), divisor, times - 1)

RECURSIVE RewriteSymbols(_, _)
\* one pass of the inner loop on the symbols of str: tempString
RewriteSymbols(rs, str) ==
    IF str = << >> THEN << >>
    ELSE Replacement(rs, Head(str)) \o RewriteSymbols(rs, Tail(str))

RECURSIVE GenerateSymbolsLoop(_, _, _, _, _)
\* the for loop of generateSystem from pass i on, on the symbols
GenerateSymbolsLoop(rs, cur, eff, i, n) ==
    IF ~Less(i, n) THEN [currentString |-> cur, effectiveIterations |-> eff]
    ELSE LET tempString == RewriteSymbols(rs, cur)
         IN  IF Len(tempString) > LengthCap /\ i < n - 1
             THEN [currentString |-> tempString, effectiveIterations |-> i + 1]
             ELSE GenerateSymbolsLoop(rs, tempString, n, i + 1, n)

\* generateSystem() on the symbols: the string and the effective count
generateSymbols(ax, rs, n, eff) == GenerateSymbolsLoop(rs, ax, eff, 0, n)

\* the turtle interpretSystem starts from
InitialTurtle(k, w, h, n, eff) ==
    IF k = "l_system_tree"
    THEN [x |-> (w * TurtleScale) \div 2,
          y |-> h * TurtleScale,
          angle |-> TreeInitialAngle,
          len |-> TimesPower(Times(h * TurtleScale, TreeInitialLengthFactor),
                             TreeHalfPower, eff),
          thickness |-> TreeInitialThickness]
    ELSE [x |-> Times(w * TurtleScale, KochStartX),
          y |-> Times(h * TurtleScale, KochStartY),
          angle |-> 0,
          len |-> OverPower(Times(w * TurtleScale, KochUsableWidth), KochShrink,
                            IF eff = 0 THEN n ELSE eff),
          thickness |-> KochInitialThickness]

\* Math.random() - 0.5 in hundredths, for the angle and for the length of a
\* symbol
DrawPairs == {<<-50, -50>>, <<0, 0>>, <<49, 49>>}

\* the draws of one interpretation: one pair for the symbols at odd places,
\* one for those at even places
DrawPatterns == DrawPairs \X DrawPairs

\* the pair drawn for the symbol at place i
DrawAt(pattern, i) == IF i % 2 = 1 THEN pattern[1] ELSE pattern[2]

\* randAngle: (Math.random() - 0.5) * angleRad * randFactor
RandAngle(draw, angleRad, randFactor) == Quotient(draw[1] * angleRad * randFactor, 10000)

\* randLenFactor: 1.0 + (Math.random() - 0.5) * randFactor * 0.5
RandLenFactor(draw, randFactor) == TurtleScale + Quotient(draw[2] * randFactor, 20)

\* the segment 'F' draws from the turtle current over the length len
Segment(current, len, thick) ==
    [x1 |-> current.x, y1 |-> current.y,
     x2 |-> current.x + CosTimes(current.angle, len),
     y2 |-> current.y + SinTimes(current.angle, len),
     thickness |-> thick,
     leafInfo |-> <<"none">>]

\* one symbol of the tree's switch with a jitter that randFactor does not scale
TreeSymbolUnscaled(st, char, angleRad, randFactor, draw) ==
    LET current == st.current
        randAngle == RandAngle(draw, angleRad, 100)
        randLenFactor == RandLenFactor(draw, 100)
    IN  IF char = "F"
        THEN LET seg == Segment(current, Times(current.len, randLenFactor),
                                MathMax(TreeMinThickness, current.thickness))
             IN  [st EXCEPT !.lines = Append(st.lines, seg),
                            !.current = [current EXCEPT !.x = seg.x2, !.y = seg.y2]]
        ELSE IF char = "+"
        THEN [st EXCEPT !.current.angle = current.angle + (angleRad + randAngle)]
        ELSE IF char = "-"
        THEN [st EXCEPT !.current.angle = current.angle - (angleRad + randAngle)]
        ELSE IF char = "["
        THEN [st EXCEPT !.turtleStack = Append(st.turtleStack, current),
                        !.current = [current EXCEPT
                                        !.len = Times(current.len, TreeLengthFactor),
                                        !.thickness = Times(current.thickness, TreeThicknessFactor)]]
        ELSE IF char = "]"
        THEN LET depth == Len(st.turtleStack)
                 leafed == IF st.lines # << >> /\ depth > 0
                           THEN [st.lines EXCEPT ![Len(st.lines)].leafInfo =
                                    <<"ellipse", depth, current.thickness>>]
                           ELSE st.lines
             IN  IF depth > 0
                 THEN [current |-> st.turtleStack[depth],
                       turtleStack |-> SubSeq(st.turtleStack, 1, depth - 1),
                       lines |-> leafed]
                 ELSE [st EXCEPT !.lines = leafed]
        ELSE st

\* one symbol of the tree's switch with a '[' that pushes the turtle itself,
\* not a copy: the tapering reaches the stacked record
TreeSymbolAliased(st, char, angleRad, randFactor, draw) ==
    LET current == st.current
        randAngle == RandAngle(draw, angleRad, randFactor)
        randLenFactor == RandLenFactor(draw, randFactor)
    IN  IF char = "F"
        THEN LET seg == Segment(current, Times(current.len, randLenFactor),
                                MathMax(TreeMinThickness, current.thickness))
             IN  [st EXCEPT !.lines = Append(st.lines, seg),
                            !.current = [current EXCEPT !.x = seg.x2, !.y = seg.y2]]
        ELSE IF char = "+"
        THEN [st EXCEPT !.current.angle = current.angle + (angleRad + randAngle)]
        ELSE IF char = "-"
        THEN [st EXCEPT !.current.angle = current.angle - (angleRad + randAngle)]
        ELSE IF char = "["
        THEN LET tapered == [current EXCEPT
                                !.len = Times(current.len, TreeLengthFactor),
                                !.thickness = Times(current.thickness, TreeThicknessFactor)]
             IN  [st EXCEPT !.turtleStack = Append(st.turtleStack, tapered),
                            !.current = tapered]
        ELSE IF char = "]"
        THEN LET depth == Len(st.turtleStack)
                 leafed == IF st.lines # << >> /\ depth > 0
                           THEN [st.lines EXCEPT ![Len(st.lines)].leafInfo =
                                    <<"ellipse", depth, current.thickness>>]
                           ELSE st.lines
             IN  IF depth > 0
                 THEN [current |-> st.turtleStack[depth],
                       turtleStack |-> SubSeq(st.turtleStack, 1, depth - 1),
                       lines |-> leafed]
                 ELSE [st EXCEPT !.lines = leafed]
        ELSE st

\* one symbol of the switch of LSystemTree.interpretSystem
TreeSymbol(st, char, angleRad, randFactor, draw) ==
    LET current == st.current
        randAngle == RandAngle(draw, angleRad, randFactor)
        randLenFactor == RandLenFactor(draw, randFactor)
    IN  IF char = "F"
        THEN LET seg == Segment(current, Times(current.len, randLenFactor),
                                MathMax(TreeMinThickness, current.thickness))
             IN  [st EXCEPT !.lines = Append(st.lines, seg),
                            !.current = [current EXCEPT !.x = seg.x2, !.y = seg.y2]]
        ELSE IF char = "+"
        THEN [st EXCEPT !.current.angle = current.angle + (angleRad + randAngle)]
        ELSE IF char = "-"
        THEN [st EXCEPT !.current.angle = current.angle - (angleRad + randAngle)]
        ELSE IF char = "["
        THEN [st EXCEPT !.turtleStack = Append(st.turtleStack, current),
                        !.current = [current EXCEPT
                                        !.len = Times(current.len, TreeLengthFactor),
                                        !.thickness = Times(current.thickness, TreeThicknessFactor)]]
        ELSE IF char = "]"
        THEN LET depth == Len(st.turtleStack)
                 leafed == IF st.lines # << >> /\ depth > 0
                           THEN [st.lines EXCEPT ![Len(st.lines)].leafInfo =
                                    <<"ellipse", depth, current.thickness>>]
                           ELSE st.lines
             IN  IF depth > 0
                 THEN [current |-> st.turtleStack[depth],
                       turtleStack |-> SubSeq(st.turtleStack, 1, depth - 1),
                       lines |-> leafed]
                 ELSE [st EXCEPT !.lines = leafed]
        ELSE st

\* one symbol of the Koch switch with a '+' that draws as well as turns
KochSymbolDrawingTurns(st, char, angleRad) ==
    LET current == st.current
    IN  IF char = "F"
        THEN LET seg == Segment(current, current.len, current.thickness)
             IN  [st EXCEPT !.lines = Append(st.lines, seg),
                            !.current = [current EXCEPT !.x = seg.x2, !.y = seg.y2]]
        ELSE IF char = "+"
        THEN [st EXCEPT !.current.angle = current.angle + angleRad,
                        !.lines = Append(st.lines, Segment(current, current.len, current.thickness))]
        ELSE IF char = "-"
        THEN [st EXCEPT !.current.angle = current.angle - angleRad]
        ELSE IF char = "["
        THEN [st EXCEPT !.turtleStack = Append(st.turtleStack, current)]
        ELSE IF char = "]"
        THEN LET depth == Len(st.turtleStack)
             IN  IF depth > 0
                 THEN [st EXCEPT !.current = st.turtleStack[depth],
                                 !.turtleStack = SubSeq(st.turtleStack, 1, depth - 1)]
                 ELSE st
        ELSE st

\* one symbol of the switch of KochSnowflake.interpretSystem
KochSymbol(st, char, angleRad) ==
    LET current == st.current
    IN  IF char = "F"
        THEN LET seg == Segment(current, current.len, current.thickness)
             IN  [st EXCEPT !.lines = Append(st.lines, seg),
                            !.current = [current EXCEPT !.x = seg.x2, !.y = seg.y2]]
        ELSE IF char = "+"
        THEN [st EXCEPT !.current.angle = current.angle + angleRad]
        ELSE IF char = "-"
        THEN [st EXCEPT !.current.angle = current.angle - angleRad]
        ELSE IF char = "["
        THEN [st EXCEPT !.turtleStack = Append(st.turtleStack, current)]
        ELSE IF char = "]"
        THEN LET depth == Len(st.turtleStack)
             IN  IF depth > 0
                 THEN [st EXCEPT !.current = st.turtleStack[depth],
                                 !.turtleStack = SubSeq(st.turtleStack, 1, depth - 1)]
                 ELSE st
        ELSE st

RECURSIVE InterpretFrom(_, _, _, _, _, _, _)
\* the for loop over the symbols of str from place i on
InterpretFrom(k, str, i, st, angleRad, randFactor, pattern) ==
    IF i > Len(str) THEN st
    ELSE InterpretFrom(k, str, i + 1,
                       IF k = "l_system_tree"
                       THEN TreeSymbol(st, str[i], angleRad, randFactor, DrawAt(pattern, i))
                       ELSE KochSymbol(st, str[i], angleRad),
                       angleRad, randFactor, pattern)

\* interpretSystem() of the variant k on the string str: the turtle, the
\* stack and the segments it ends with
interpretSystem(k, str, w, h, n, eff, ang, randFactor, pattern) ==
    InterpretFrom(k, str, 1,
                  [current |-> InitialTurtle(k, w, h, n, eff),
                   turtleStack |-> << >>,
                   lines |-> << >>],
                  degreesToRadians(ang), randFactor, pattern)

\* reset() of an L-system with the parameters ax, rs, n, ang, rnd, the string
\* and the segments followed symbol by symbol
TurtleResetWith(ax, rs, n, ang, rnd) ==
    LET g == generateSymbols(ax, rs, n, effectiveIterations)
    IN  /\ Len(g.currentString) <= MaxSymbols
        /\ iteration' = 0
        /\ symbols' = g.currentString
        /\ currentString' = CountsOf(g.currentString)
        /\ effectiveIterations' = g.effectiveIterations
        /\ \E pattern \in DrawPatterns :
               lines' = interpretSystem(kind, g.currentString, width, height, n,
                                        g.effectiveIterations, ang, rnd, pattern).lines

\* reset()
TurtleReset ==
    /\ kind \in LSKinds
    /\ TurtleResetWith(axiom, rules, iterations, angle, randomness)
    /\ UNCHANGED <<kind, width, height, axiom, rules, iterations, angle, randomness>>

\* iteration counts, angles, randomness factors and strings handed to
\* setParamValue where the interpreter is followed
TurtleIterationValues == {Numeral(0), Numeral(1), Numeral(2)}
TurtleAngleValues == {<<"9", "0">>}
TurtleRandomnessValues == {<<"0">>, <<"1">>}
TurtleAxiomValues ==
    { <<"F">>, KochAxiom, <<"F", "[", "+", "F", "]", "F">>, <<"]", "F", "[", "[", "F", "]", "-", "F">> }
TurtleRuleValues == { <<"F", "[", "+", "F", "]">>, << >> }

\* the values handed to setParamValue for the parameter id
TurtleParamValues(id) ==
    IF id = "iterations" THEN TurtleIterationValues
    ELSE IF id = "angle" THEN TurtleAngleValues
    ELSE IF id = "randomness" THEN TurtleRandomnessValues
    ELSE IF id = "axiom" THEN TurtleAxiomValues
    ELSE TurtleRuleValues

\* setParamValue(paramId, value): the parameter, then reset()
TurtleSetParamValue(paramId, value) ==
    /\ kind \in LSKinds
    /\ IF paramId \in {"rule_F", "rule_X"}
       THEN LET rs == [c \in DOMAIN rules \cup {RuleKey(paramId)} |->
                          IF c = RuleKey(paramId) THEN value ELSE rules[c]]
            IN  /\ rules' = rs
                /\ TurtleResetWith(axiom, rs, iterations, angle, randomness)
                /\ UNCHANGED <<kind, width, height, axiom, iterations, angle, randomness>>
       ELSE IF paramId = "iterations"
       THEN LET n == MathMax(0, ParseInt(value))
            IN  /\ iterations' = n
                /\ TurtleResetWith(axiom, rules, n, angle, randomness)
                /\ UNCHANGED <<kind, width, height, axiom, rules, angle, randomness>>
       ELSE IF paramId = "angle"
       THEN /\ angle' = ParseFloat(value)
            /\ TurtleResetWith(axiom, rules, iterations, angle', randomness)
            /\ UNCHANGED <<kind, width, height, axiom, rules, iterations, randomness>>
       ELSE IF paramId = "randomness"
       THEN /\ randomness' = ParseFloat(value)
            /\ TurtleResetWith(axiom, rules, iterations, angle, randomness')
            /\ UNCHANGED <<kind, width, height, axiom, rules, iterations, angle>>
       ELSE IF paramId = "axiom"
       THEN /\ axiom' = value
            /\ TurtleResetWith(value, rules, iterations, angle, randomness)
            /\ UNCHANGED <<kind, width, height, rules, iterations, angle, randomness>>
       ELSE UNCHANGED <<baseVars, lsVars, tuVars>>

\* setParamValue with the ids and values the driver can hand it
TurtleSetParam ==
    \E id \in {"rule_F", "rule_X", "iterations", "angle", "randomness", "axiom"} :
        \E value \in TurtleParamValues(id) : TurtleSetParamValue(id, value)

\* new LSystemTree(w, h) / new KochSnowflake(w, h) on the largest viewport,
\* then setParamValue('iterations', '1'); from there under setParamValue and
\* reset, for the strings of at most MaxSymbols symbols
InitTurtle ==
    /\ \E k \in LSKinds, pattern \in DrawPatterns :
           LET ax == IF k = "l_system_tree" THEN TreeAxiom ELSE KochAxiom
               rs == IF k = "l_system_tree" THEN TreeRules ELSE KochRules
               g == generateSymbols(ax, rs, 1, DefaultIterations)
           IN  /\ kind = k
               /\ width = MaxView
               /\ height = MaxView
               /\ iteration = 0
               /\ axiom = ax
               /\ rules = rs
               /\ iterations = 1
               /\ angle = (IF k = "l_system_tree" THEN TreeAngle ELSE KochAngle)
               /\ randomness = (IF k = "l_system_tree" THEN TreeRandomness ELSE 0)
               /\ symbols = g.currentString
               /\ currentString = CountsOf(g.currentString)
               /\ effectiveIterations = g.effectiveIterations
               /\ lines = interpretSystem(k, g.currentString, MaxView, MaxView, 1,
                                          g.effectiveIterations, angle, randomness, pattern).lines
    /\ NoGrid
    /\ NoSwarm
    /\ NoDriver

NextTurtle ==
    \/ TurtleReset /\ UNCHANGED <<caVars, agVars, drVars>>
    \/ TurtleSetParam /\ UNCHANGED <<caVars, agVars, drVars>>

SpecTurtle == InitTurtle /\ [][NextTurtle]_vars

\* GenerativeSystem.step() of the base entity
BaseStep ==
    /\ kind = "generic"
    /\ iteration < MaxIteration
    /\ iteration' = iteration + 1
    /\ UNCHANGED <<kind, width, height>>

\* GenerativeSystem.reset() of the base entity
BaseReset ==
    /\ kind = "generic"
    /\ iteration' = 0
    /\ UNCHANGED <<kind, width, height>>

\* the base entity createSystemInstance builds for an unregistered id
InitBase ==
    /\ \E w \in ViewSizes, h \in ViewSizes :
           /\ kind = createSystemInstance("unknown")
           /\ width = w
           /\ height = h
           /\ iteration = 0
    /\ NoGrid
    /\ NoLSystem
    /\ NoSwarm
    /\ NoDriver
    /\ NoLines

NextBase ==
    \/ BaseStep /\ UNCHANGED <<caVars, lsVars, agVars, drVars, tuVars>>
    \/ BaseReset /\ UNCHANGED <<caVars, lsVars, agVars, drVars, tuVars>>

\* an entity of any variant from its construction on, under every operation
InitEntities == InitCA \/ InitLS \/ InitAgents \/ InitBase

NextEntities == NextCA \/ NextLS \/ NextAgents \/ NextBase

SpecEntities == InitEntities /\ [][NextEntities]_vars

\* the id of the parameter getParameters() lists for the rule key c
RuleId(c) == IF c = "F" THEN "rule_F" ELSE "rule_X"

\* getParameters(): the ids of the parameters the entity lists
getParameters ==
    IF kind = "ca_life" THEN {"cellSize", "initialDensity", "randomizeBtn"}
    ELSE IF kind = "ca_brain" THEN {"cellSize", "randomizeBtn"}
    ELSE IF kind \in LSKinds
    THEN {"iterations", "angle", "axiom", "randomness"} \cup {RuleId(c) : c \in DOMAIN rules}
    ELSE IF kind = "agent_slime"
    THEN {"agentCount", "moveSpeed", "turnSpeed", "sensorAngle", "sensorDistance"}
    ELSE {}

----------------------------------------------------------------------------
(* Properties of the grid automata *)

\* the eight offsets (dx, dy) other than (0, 0)
OffsetSet == ((-1..1) \X (-1..1)) \ {<<0, 0>>}

\* the number of offsets whose toroidally indexed cell of g is in state q
TorusCount(g, r, c, x, y, q) ==
    Cardinality({o \in OffsetSet : g[(y + o[2] + r) % r][(x + o[1] + c) % c] = q})

\* the step just taken was a step() of a grid automaton
IsStep == kind \in CAKinds /\ iteration' = iteration + 1

\* C1: after one ConwayLife.step() a dead cell with exactly 3 live toroidal
\* neighbours is alive, a live cell with fewer than 2 or more than 3 is dead,
\* and every other cell keeps its state.
C1_LifeTransition ==
    [][(IsStep /\ kind = "ca_life") =>
        \A y \in 0..(rows - 1), x \in 0..(cols - 1) :
            LET n == TorusCount(grid, rows, cols, x, y, 1)
                s == grid[y][x]
                t == grid'[y][x]
            IN  /\ (s = 0 /\ n = 3) => t = 1
                /\ (s = 1 /\ (n < 2 \/ n > 3)) => t = 0
                /\ (s = 1 /\ n \in {2, 3}) => t = 1
                /\ (s = 0 /\ n # 3) => t = 0]_vars

\* a Life step on the 3 x 3 torus has given birth to a cell with 3 live
\* neighbours and kept a live cell with 2 (nextGrid holds the grid the step
\* read)
C1_Witness ==
    /\ kind = "ca_life"
    /\ iteration = 1
    /\ rows = 3
    /\ cols = 3
    /\ \E y \in 0..(rows - 1), x \in 0..(cols - 1) :
           nextGrid[y][x] = 0 /\ TorusCount(nextGrid, rows, cols, x, y, 1) = 3 /\ grid[y][x] = 1
    /\ \E y \in 0..(rows - 1), x \in 0..(cols - 1) :
           nextGrid[y][x] = 1 /\ TorusCount(nextGrid, rows, cols, x, y, 1) = 2 /\ grid[y][x] = 1

\* C2: after one BrianBrain.step() a firing cell is refractory, a refractory
\* cell is off, and an off cell is firing iff exactly 2 of its 8 toroidal
\* neighbours were firing; refractory neighbours are not counted.
C2_BrainCycle ==
    [][(IsStep /\ kind = "ca_brain") =>
        \A y \in 0..(rows - 1), x \in 0..(cols - 1) :
            LET n == TorusCount(grid, rows, cols, x, y, 1)
                s == grid[y][x]
                t == grid'[y][x]
            IN  /\ s = 1 => t = 2
                /\ s = 2 => t = 0
                /\ s = 0 => (t = 1 <=> n = 2)
                /\ (s = 0 /\ n # 2) => t = 0]_vars

\* a Brian's Brain step has fired an off cell with 2 firing neighbours next to
\* a refractory one, and left off a cell with 1 or 3
C2_Witness ==
    /\ kind = "ca_brain"
    /\ iteration = 1
    /\ \E y \in 0..(rows - 1), x \in 0..(cols - 1) :
           /\ nextGrid[y][x] = 0 /\ grid[y][x] = 1
           /\ TorusCount(nextGrid, rows, cols, x, y, 1) = 2
           /\ TorusCount(nextGrid, rows, cols, x, y, 2) >= 1
    /\ \E y \in 0..(rows - 1), x \in 0..(cols - 1) :
           nextGrid[y][x] = 0 /\ grid[y][x] = 0 /\ TorusCount(nextGrid, rows, cols, x, y, 1) \in {1, 3}
    /\ \E y \in 0..(rows - 1), x \in 0..(cols - 1) : nextGrid[y][x] = 1 /\ grid[y][x] = 2
    /\ \E y \in 0..(rows - 1), x \in 0..(cols - 1) : nextGrid[y][x] = 2 /\ grid[y][x] = 0

\* C3: countNeighbors(x, y) is the number of the 8 offsets (dx, dy) # (0, 0)
\* whose cell ((y+dy+R) mod R, (x+dx+C) mod C) qualifies, a cell counted once
\* per offset that lands on it.
C3_ToroidalCount ==
    kind \in CAKinds =>
        \A y \in 0..(rows - 1), x \in 0..(cols - 1) :
            countNeighbors(kind, grid, rows, cols, x, y)
                = TorusCount(grid, rows, cols, x, y, 1)

\* the corner of a grid narrower than 3 counts a cell more than once, itself
\* included: a live 1 x 2 Life grid, where 2 offsets land on (0,0) and 6 on (0,1)
C3_Witness ==
    /\ kind = "ca_life"
    /\ rows = 1
    /\ cols = 2
    /\ grid[0][0] = 1
    /\ grid[0][1] = 0
    /\ countNeighbors(kind, grid, rows, cols, 0, 0) = 2
    /\ countNeighbors(kind, grid, rows, cols, 1, 0) = 6

BlinkerRow == <<0, 1, 0>>

\* the 3 x 3 grid whose live cells are the middle row
BlinkerHorizontal == [y \in 0..2 |-> [x \in 0..2 |-> IF y = 1 THEN 1 ELSE 0]]

\* the 3 x 3 grid whose live cells are the middle column
BlinkerVertical == [y \in 0..2 |-> [x \in 0..2 |-> BlinkerRow[x + 1]]]

\* the 3 x 3 grid with every cell v
Uniform3(v) == [y \in 0..2 |-> [x \in 0..2 |-> v]]

\* C4 as stated: on a 3 x 3 Life torus one step() takes the middle-row blinker
\* to the middle column and a second step() takes it back.
C4_Blinker ==
    [][(IsStep /\ kind = "ca_life") =>
        /\ grid = BlinkerHorizontal => grid' = BlinkerVertical
        /\ grid = BlinkerVertical => grid' = BlinkerHorizontal]_vars

\* C4 amended: on a 3 x 3 Life torus one step() takes the middle-row blinker to
\* the grid with all nine cells alive, and a second step() to the empty grid.
C4_BlinkerOnTorus ==
    [][(IsStep /\ kind = "ca_life") =>
        /\ grid = BlinkerHorizontal => grid' = Uniform3(1)
        /\ grid = Uniform3(1) => grid' = Uniform3(0)]_vars

\* the two steps from the blinker have been taken
C4_Witness ==
    /\ kind = "ca_life"
    /\ iteration = 2
    /\ grid = Uniform3(0)
    /\ nextGrid = Uniform3(1)

\* the grid with the rule applied to every cell of g at once
Simultaneous(k, g, r, c) ==
    [y \in 0..(r - 1) |-> [x \in 0..(c - 1) |-> NextState(k, g, r, c, x, y)]]

\* a sequence back to front
Reverse(s) == [i \in 1..Len(s) |-> s[Len(s) + 1 - i]]

\* C6: the grid after step() is the rule applied to every cell at once on the
\* pre-step values; the source buffer comes out of the step as it went in, and
\* visiting the cells in another order gives the same grid.
C6_OrderIndependent ==
    [][IsStep =>
        /\ grid' = Simultaneous(kind, grid, rows, cols)
        /\ nextGrid' = grid
        /\ grid' = StepLoop(kind, grid, nextGrid, 0, rows, cols,
                            Reverse(RowMajor(rows, cols))).dst]_vars

\* a step has changed a cell whose neighbour, visited earlier, changed too
C6_Witness ==
    /\ kind \in CAKinds
    /\ iteration = 1
    /\ rows * cols >= 4
    /\ grid[0][0] # nextGrid[0][0]
    /\ grid[0][1] # nextGrid[0][1]

\* C5: getPopulation() equals a recount of the cells of the live grid that are 1
C5_PopulationFresh ==
    kind \in CAKinds =>
        population = Cardinality(UNION {{<<y, x>> : x \in {x \in DOMAIN grid[y] : grid[y][x] = 1}} :
                                            y \in DOMAIN grid})

\* a Brian's Brain grid that was stepped and toggled holds firing and
\* refractory cells
C5_Witness ==
    /\ kind = "ca_brain"
    /\ iteration > 0
    /\ population > 0
    /\ \E y \in DOMAIN grid : \E x \in DOMAIN grid[y] : grid[y][x] = 2

\* r x c matrix
IsMatrix(g, r, c) ==
    /\ DOMAIN g = 0..(r - 1)
    /\ \A y \in DOMAIN g : DOMAIN g[y] = 0..(c - 1)

\* C7: rows = max(1, floor(height / cellSize)) and cols = max(1, floor(width /
\* cellSize)), both at least 1, and grid and nextGrid are rows x cols matrices.
C7_GridDimensions ==
    kind \in CAKinds =>
        /\ ~IsNaN(rows) /\ rows >= 1
        /\ ~IsNaN(cols) /\ cols >= 1
        /\ ~IsNaN(cellSize)
        /\ rows = (IF height \div cellSize >= 1 THEN height \div cellSize ELSE 1)
        /\ cols = (IF width \div cellSize >= 1 THEN width \div cellSize ELSE 1)
        /\ IsMatrix(grid, rows, cols)
        /\ IsMatrix(nextGrid, rows, cols)

----------------------------------------------------------------------------
(* Properties of the L-system generator *)

\* C8: after every generateSystem() the stored string has at most 100,000
\* symbols.
C8_LengthCapped == kind \in LSKinds => Length(currentString) <= LengthCap

RECURSIVE ExceedsWithin(_, _, _)
\* some one of the next n rewriting passes of str yields more than LengthCap
\* symbols
ExceedsWithin(rs, str, n) ==
    /\ n >= 1
    /\ LET next == RewritePass(rs, str)
       IN  Length(next) > LengthCap \/ ExceedsWithin(rs, next, n - 1)

\* C9: whenever the rewriting exceeds 100,000 symbols at some iteration within
\* the requested count, the last one included, the recorded effective
\* iteration count is strictly less than the requested count.
C9_BreachReported ==
    (kind \in LSKinds /\ ~IsNaN(iterations) /\ ExceedsWithin(rules, CountsOf(axiom), iterations))
        => effectiveIterations < iterations

----------------------------------------------------------------------------
(* Properties of the swarm *)

\* C10: after a swarm step that ran the sense-steer-move-wrap sequence, every
\* agent satisfies 0 <= x < width and 0 <= y < height.
C10_AgentBounds ==
    (kind = "agent_slime" /\ iteration > 0 /\ trailMapData = "imageData") =>
        \A i \in DOMAIN agents :
            /\ 0 <= agents[i].x /\ agents[i].x < width * PixelScale
            /\ 0 <= agents[i].y /\ agents[i].y < height * PixelScale

\* the intensities of the trail field: the green byte of every pixel of data
Intensities(data) == [p \in 1..(Cardinality(DOMAIN data) \div 4) |-> data[4 * (p - 1) + 1]]

\* the deposition amounts of a batch
Amounts(batch) == [i \in 1..Len(batch) |-> batch[i].deposition]

\* a swarm operation that handed a deposition batch to the renderer
HandsBatch == kind = "agent_slime" /\ depositionBatches' # << >>

\* the trail field as the step's sensing finds it: cleared if a reset asked
FieldSensed == IF needsBufferUpdate THEN clear(imageData) ELSE imageData

\* C11: the total intensity a step's batch adds to the trail field equals the
\* sum of the deposition amounts of the batch.
C11_DepositionConserved ==
    [][HandsBatch =>
        SumSeq(Intensities(imageData')) - SumSeq(Intensities(FieldSensed))
            = SumSeq(Amounts(depositionBatches'[1]))]_vars

\* a step() of the swarm has returned
IsSwarmStep == kind = "agent_slime" /\ iteration' = iteration + 1

\* every agent has sensed the field as the step found it, steered, moved and
\* wrapped, and the field was written once, after that, with one record an
\* agent
SensedThenWritten ==
    /\ Len(depositionBatches') = 1
    /\ Len(depositionBatches'[1]) = Len(agents)
    /\ \E draw \in [1..Len(agents) -> Draws] :
           agents' = [i \in 1..Len(agents) |->
                         StepAgent(agents[i], FieldSensed, width, height, moveSpeed,
                                   sensorDistance, sensorAngle, turnSpeed,
                                   draw[i].jitter, draw[i].coin)]
    /\ \A i \in 1..Len(agents) :
           /\ depositionBatches'[1][i].x = agents'[i].x
           /\ depositionBatches'[1][i].y = agents'[i].y
    /\ imageData' = updateAgentTrails(FieldSensed, width, height, depositionBatches'[1])

\* C12: within one swarm step every agent senses the trail field as it was
\* when the sensing began, nothing is written before all agents have sensed,
\* steered and moved, and the batch, one record an agent, is handed to the
\* field owner exactly once.
C12_ReadBeforeWrite == [][IsSwarmStep => SensedThenWritten]_vars

\* the same of the steps that reached the sensing
C12_OrderWhenSensing == [][(IsSwarmStep /\ depositionBatches' # << >>) => SensedThenWritten]_vars

\* the headings of the three sensors of an agent: forward, left, right
SensorHeadings(agent) ==
    {agent.angle, agent.angle + FullTurn - (sensorAngle % FullTurn), agent.angle + sensorAngle}

\* the point at sensorDistance from the agent along the heading a
SensorPoint(agent, a) ==
    [x |-> agent.x + CosTimes(a, sensorDistance), y |-> agent.y + SinTimes(a, sensorDistance)]

\* the point (x, y) is outside the field rectangle [0, width) x [0, height)
OutsideField(x, y) ==
    x < 0 \/ x >= width * PixelScale \/ y < 0 \/ y >= height * PixelScale

\* C13: the weight of a sensor whose point projects outside the field is 0,
\* and sampleTrail(trailMap, width, x, y) is 0 for every (x, y) outside it.
C13_OutOfBoundsZero ==
    (kind = "agent_slime" /\ imageData # << >>) =>
        /\ \A i \in DOMAIN agents : \A a \in SensorHeadings(agents[i]) :
               OutsideField(SensorPoint(agents[i], a).x, SensorPoint(agents[i], a).y)
                   => SensorWeight(agents[i], a, sensorDistance, imageData, width, height) = 0
        /\ \A px \in (-2)..(2 * width), py \in (-2)..(4 * height) :
               OutsideField(px * PixelScale, py * PixelScale)
                   => sampleTrail(imageData, width, px * PixelScale, py * PixelScale) = 0

\* C13, the sensors only: the weight of a sensor whose point projects outside
\* the field is 0
C13_SensorOutsideZero ==
    (kind = "agent_slime" /\ imageData # << >>) =>
        \A i \in DOMAIN agents : \A a \in SensorHeadings(agents[i]) :
            OutsideField(SensorPoint(agents[i], a).x, SensorPoint(agents[i], a).y)
                => SensorWeight(agents[i], a, sensorDistance, imageData, width, height) = 0

----------------------------------------------------------------------------
(* Properties of setParamValue *)

\* values that parse as no number
UnparsableValues == {<<"a", "b", "c">>, << >>}

\* C14: setParamValue(id, v) of a numeric parameter with v not parsable as a
\* number leaves the parameter's previous value in effect and the simulation
\* state unchanged, in every variant.
C14_UnparsableIgnored ==
    [][\A v \in UnparsableValues :
        /\ \A id \in {"cellSize", "initialDensity"} :
               LifeSetParamValue(id, v) => UNCHANGED <<baseVars, caVars>>
        /\ \A id \in {"iterations", "angle", "randomness"} :
               LSystemSetParamValue(id, v) => UNCHANGED <<baseVars, lsVars>>
        /\ \A id \in {"agentCount", "moveSpeed", "turnSpeed", "sensorAngle", "sensorDistance"} :
               SlimeSetParamValue(id, v) => UNCHANGED <<baseVars, swarmState>>]_vars

----------------------------------------------------------------------------
(* Properties of the factory and the driver *)

\* C15: createSystemInstance returns a non-null entity for every system id,
\* the ids whose constructor throws included, so the driver always holds a
\* usable current entity.
C15_InertFallback ==
    /\ \A systemId \in SelectorIds : createSystemInstance(systemId) # "null"
    /\ currentSystem # "null"

\* C16: when step() throws inside the driver, isRunning becomes false, and
\* while no play / pause or step click has followed no animation frame
\* invokes step() again.
C16_StepErrorStops ==
    [][/\ stepError' => ~isRunning'
       /\ (stepError /\ AnimationLoop) => stepCalls' = stepCalls]_vars

\* a step() issued by a frame of the running loop threw, and the loop still
\* has its next frame queued
C16_Witness ==
    /\ stepError
    /\ ~isRunning
    /\ stepCalls >= 1
    /\ animationFrameId # 0
    /\ animationFrameId \in pendingFrames

\* C17: reset() of every variant leaves the iteration counter at 0, and a
\* completed step() of a grid automaton raises it by exactly 1.
C17_ResetZeroesIteration ==
    [][/\ (Reset \/ LSReset \/ AgReset \/ BaseReset) => iteration' = 0
       /\ Step => iteration' = iteration + 1]_vars

\* a Life grid, built empty, that reset() has randomized: live cells at
\* iteration 0 with a cleared back buffer
C17_Witness ==
    /\ kind = "ca_life"
    /\ iteration = 0
    /\ rows > 0
    /\ population > 1
    /\ nextGrid = createGrid(rows, cols)

\* C18: step() of LSystemTree and KochSnowflake changes neither the generated
\* string nor the parameters nor the iteration counter, and the counter of a
\* fractal entity is 0 in every reachable state.
C18_FractalStepNoOp ==
    /\ iteration = 0
    /\ [][/\ LSStep => UNCHANGED <<baseVars, lsVars>>
          /\ iteration' = 0]_vars

\* a fractal regenerated under a changed iteration count, on which step()
\* is callable: its counter reads 0
C18_Witness ==
    /\ kind \in LSKinds
    /\ iterations # DefaultIterations
    /\ effectiveIterations = iterations
    /\ currentString # << >>
    /\ iteration = 0
    /\ ENABLED LSStep

\* C19: setParamValue(id, v) with an id the variant's getParameters() does not
\* list leaves base fields, parameters and simulation state of every variant
\* unchanged.
C19_UnknownIdIgnored ==
    [][/\ \A id \in ParamIds \ getParameters, v \in ParamValues :
              LifeSetParamValue(id, v) => UNCHANGED <<baseVars, caVars>>
       /\ \A id \in LSParamIds \ getParameters : \A v \in LSParamValues(id) :
              LSystemSetParamValue(id, v) => UNCHANGED <<baseVars, lsVars>>
       /\ \A id \in AgParamIds \ getParameters : \A v \in AgParamValues(id) :
              SlimeSetParamValue(id, v) => UNCHANGED <<baseVars, swarmState>>]_vars

\* the parameters of a swarm that setParamValue stores without reset()
VelocityLikeIds == {"moveSpeed", "turnSpeed", "sensorAngle", "sensorDistance"}

\* the values of AgParamValues that parseFloat reads as a number
NumericValues == [id \in AgParamIds |-> {v \in AgParamValues(id) : ~IsNaN(ParseFloat(v))}]

\* C20: on a swarm, setParamValue of moveSpeed, turnSpeed, sensorAngle or
\* sensorDistance with a numeric value leaves the agents and the iteration
\* counter unchanged; setParamValue('agentCount', n) resets: iteration 0 and
\* the agents freshly spawned.
C20_VelocityLikeNoReset ==
    [][/\ \/ UNCHANGED <<agents, iteration>>
          \/ \A id \in VelocityLikeIds : \A v \in NumericValues[id] :
                 ~SlimeSetParamValue(id, v)
       /\ \/ /\ iteration' = 0
             /\ agents' \in Spawned(agentCount', width, height)
          \/ \A v \in NumericValues["agentCount"] :
                 ~SlimeSetParamValue("agentCount", v)]_vars

\* a swarm that has been stepped and whose move speed and sensor distance
\* are no longer the constructor's: no reset has come with the new values
C20_Witness ==
    /\ kind = "agent_slime"
    /\ iteration > 0
    /\ moveSpeed # DefaultMoveSpeed
    /\ sensorDistance # DefaultSensorDistance
    /\ agents # << >>

\* C21: onResize(w, h) of a grid automaton keeps every cell that lies inside
\* both the old and the new grid, leaves every other cell of the new grid 0,
\* and does not change the iteration counter.
C21_ResizeKeepsOverlap ==
    [][OnResize =>
          /\ iteration' = iteration
          /\ \A y \in DOMAIN grid' : \A x \in DOMAIN grid'[y] :
                 grid'[y][x] = (IF y \in DOMAIN grid /\ x \in DOMAIN grid[y]
                                THEN grid[y][x] ELSE 0)]_vars

\* a stepped automaton on a one-row grid that still holds a live cell in its
\* second column above a cleared back buffer, as a resize from two rows
\* leaves it
C21_Witness ==
    /\ kind \in CAKinds
    /\ iteration > 0
    /\ rows = 1
    /\ cols = 2
    /\ grid[0][1] # 0
    /\ nextGrid = createGrid(1, 2)

\* the number of cells of the grid g that hold 1
Ones(g) == Cardinality({p \in UNION {{<<y, x>> : x \in DOMAIN g[y]} : y \in DOMAIN g} :
                           g[p[1]][p[2]] = 1})

\* C22: handleMouseDown(x, y) / handleMouseMove(x, y) changes exactly the cell
\* (floor(y / cellSize), floor(x / cellSize)) when that index is inside
\* rows x cols (Life s -> 1 - s, Brian's Brain s -> (s + 1) mod 3) and no cell
\* otherwise; the iteration counter is unchanged and the population is that
\* of the grid after the toggle.
C22_ToggleOneCell ==
    [][\A x \in Coords, y \in Coords :
          (kind \in CAKinds /\ Toggle(x, y)) =>
              LET gridX == FloorDiv(x, cellSize)
                  gridY == FloorDiv(y, cellSize)
                  inside == /\ ~IsNaN(gridX) /\ ~IsNaN(gridY) /\ ~IsNaN(rows) /\ ~IsNaN(cols)
                            /\ gridY \in 0..(rows - 1)
                            /\ gridX \in 0..(cols - 1)
              IN  /\ iteration' = iteration
                  /\ DOMAIN grid' = DOMAIN grid
                  /\ inside => gridY \in DOMAIN grid /\ gridX \in DOMAIN grid[gridY]
                  /\ \A r \in DOMAIN grid :
                         /\ DOMAIN grid'[r] = DOMAIN grid[r]
                         /\ \A c \in DOMAIN grid[r] :
                                grid'[r][c] =
                                    (IF inside /\ r = gridY /\ c = gridX
                                     THEN (IF kind = "ca_brain" THEN (grid[r][c] + 1) % 3
                                           ELSE 1 - grid[r][c])
                                     ELSE grid[r][c])
                  /\ population' = Ones(grid')]_vars

\* a Brian's Brain grid with a refractory cell at iteration 0: reset() fills
\* in 0 and 1 only, so a pointer toggle has cycled the cell to 2
C22_Witness ==
    /\ kind = "ca_brain"
    /\ iteration = 0
    /\ \E y \in DOMAIN grid : \E x \in DOMAIN grid[y] : grid[y][x] = 2
    /\ population = Ones(grid)

----------------------------------------------------------------------------
(* Properties of the interpreter *)

\* the segments interpretSystem() builds from the entity's string and
\* parameters when Math.random() returns the draws of pattern
Regenerated(pattern) ==
    interpretSystem(kind, symbols, width, height, iterations, effectiveIterations,
                    angle, randomness, pattern).lines

C24_SegmentCount ==
    kind \in LSKinds =>
        /\ Len(lines) = Occurrences(symbols, "F")
        /\ (kind = "l_system_koch" /\ axiom = KochAxiom /\ rules = KochRules /\ iterations = 1)
               => Len(lines) = 12

\* the Koch curve of the claim's example, generated and interpreted
C24_Witness ==
    /\ kind = "l_system_koch"
    /\ axiom = KochAxiom
    /\ rules = KochRules
    /\ iterations = 1
    /\ effectiveIterations = 1
    /\ Len(symbols) = 28
    /\ Len(lines) = 12

RECURSIVE PassesApplied(_, _, _, _)
\* the number of rewriting passes generateSystem applies to the string cur
\* from pass i on for the requested count n
PassesApplied(rs, cur, i, n) ==
    IF ~Less(i, n) THEN i
    ELSE LET tempString == RewritePass(rs, cur)
         IN  IF Length(tempString) > LengthCap /\ i < n - 1
             THEN i + 1
             ELSE PassesApplied(rs, tempString, i + 1, n)

\* C25: after every generateSystem() the recorded effective iteration count
\* is the number of rewriting passes applied to obtain the stored string,
\* for every requested count, 0 and a count below an earlier one included.
C25_EffectiveIterationsAccurate ==
    kind \in LSKinds =>
        effectiveIterations = PassesApplied(rules, CountsOf(axiom), 0, iterations)

RECURSIVE Substituted(_, _)
\* the concatenation of r(c) over the symbols c of str, r(c) the replacement
\* of the rule for c where rs has one and c itself otherwise
Substituted(rs, str) ==
    IF str = << >> THEN << >>
    ELSE (IF Head(str) \in DOMAIN rs THEN rs[Head(str)] ELSE <<Head(str)>>)
             \o Substituted(rs, Tail(str))

\* C26: one rewriting pass replaces every symbol that has a rule by that
\* rule's replacement, the empty replacement included, and keeps a symbol
\* only when it has no rule.
C26_SimultaneousSubstitution ==
    (kind \in LSKinds /\ iterations = 1) => symbols = Substituted(rules, axiom)

\* the interpreter's state after the first j symbols of the entity's string
After(j, pattern) ==
    interpretSystem(kind, SubSeq(symbols, 1, j), width, height, iterations,
                    effectiveIterations, angle, randomness, pattern)

\* the number of places from i to j of the entity's string that hold char
CountIn(i, j, char) == Cardinality({k \in i..j : symbols[k] = char})

\* the ']' at place j closes the '[' at place i: the symbols between them
\* are balanced
Closes(i, j) ==
    /\ i < j
    /\ symbols[i] = "["
    /\ symbols[j] = "]"
    /\ CountIn(i + 1, j - 1, "[") = CountIn(i + 1, j - 1, "]")
    /\ \A k \in (i + 1)..(j - 1) : CountIn(i + 1, k, "[") >= CountIn(i + 1, k, "]")

\* C27: once a balanced '[' ... ']' pair is consumed the turtle (position,
\* heading, length, thickness) and the stack depth are what they were just
\* before the '['; a ']' met with an empty stack changes neither.
C27_BranchRestore ==
    kind \in LSKinds =>
        \A pattern \in DrawPatterns : \A j \in DOMAIN symbols :
            /\ \A i \in DOMAIN symbols :
                   Closes(i, j) =>
                       /\ After(j, pattern).current = After(i - 1, pattern).current
                       /\ Len(After(j, pattern).turtleStack)
                              = Len(After(i - 1, pattern).turtleStack)
            /\ (symbols[j] = "]" /\ After(j - 1, pattern).turtleStack = << >>) =>
                   /\ After(j, pattern).current = After(j - 1, pattern).current
                   /\ After(j, pattern).turtleStack = << >>

\* a tree whose string holds a branch that draws and a ']' without a '['
C27_Witness ==
    /\ kind = "l_system_tree"
    /\ \E i \in DOMAIN symbols, j \in DOMAIN symbols :
           Closes(i, j) /\ CountIn(i, j, "F") > 0
    /\ symbols # << >> /\ symbols[1] = "]"
    /\ Len(lines) >= 3

\* params.lengthFactor and params.thicknessFactor of the variant
LengthFactorOf(k) == IF k = "l_system_tree" THEN TreeLengthFactor ELSE KochLengthFactor
ThicknessFactorOf(k) == IF k = "l_system_tree" THEN TreeThicknessFactor ELSE KochThicknessFactor

\* C28: in the tree and in the Koch curve, consuming '[' pushes a copy of the
\* turtle and then multiplies the active length by lengthFactor and the
\* active thickness by thicknessFactor.
C28_BranchTapering ==
    kind \in LSKinds =>
        \A pattern \in DrawPatterns : \A i \in DOMAIN symbols :
            symbols[i] = "[" =>
                LET before == After(i - 1, pattern)
                    after == After(i, pattern)
                IN  /\ after.turtleStack = Append(before.turtleStack, before.current)
                    /\ after.current.len = Times(before.current.len, LengthFactorOf(kind))
                    /\ after.current.thickness
                           = Times(before.current.thickness, ThicknessFactorOf(kind))
                    /\ after.current.x = before.current.x
                    /\ after.current.y = before.current.y
                    /\ after.current.angle = before.current.angle

----------------------------------------------------------------------------
(* Properties of steering and wrapping *)

\* the weights agent senses forward, left and right on the buffer trailMap
Weights(agent, trailMap) ==
    [forward |-> SensorWeight(agent, agent.angle, sensorDistance, trailMap, width, height),
     left |-> SensorWeight(agent, agent.angle + FullTurn - (sensorAngle % FullTurn),
                           sensorDistance, trailMap, width, height),
     right |-> SensorWeight(agent, agent.angle + sensorAngle, sensorDistance, trailMap,
                            width, height)]

\* the heading senseAndSteer leaves differs from the heading before by at
\* most randomSteerStrength
JitterOnly(before, after) ==
    LET delta == (after.angle - before.angle + FullTurn * FullTurn) % FullTurn
    IN  delta <= RandomSteerStrength \/ delta >= FullTurn - RandomSteerStrength

\* C29: when the forward weight is at least the left and at least the right
\* weight, ties included, senseAndSteer changes the heading by a jitter of at
\* most randomSteerStrength and never by a turn of turnSpeed.
C29_ForwardKeepsHeading ==
    (kind = "agent_slime" /\ imageData # << >>) =>
        \A i \in DOMAIN agents :
            LET w == Weights(agents[i], imageData)
            IN  (GreaterEq(w.forward, w.left) /\ GreaterEq(w.forward, w.right)) =>
                    \A d \in Draws :
                        JitterOnly(agents[i],
                                   senseAndSteer(agents[i], imageData, width, height,
                                                 sensorDistance, sensorAngle, turnSpeed,
                                                 d.jitter, d.coin))

\* C30: wrapBounds maps every coordinate to the one value of [0, dimension)
\* congruent to it modulo the dimension: a coordinate inside stays, one
\* outside is wrapped, never clamped or reflected.
C30_WrapIsModulo ==
    (kind = "agent_slime" /\ imageData # << >>) =>
        \A i \in DOMAIN agents : \A d \in Draws :
            LET moved == move(senseAndSteer(agents[i], imageData, width, height,
                                            sensorDistance, sensorAngle, turnSpeed,
                                            d.jitter, d.coin), moveSpeed)
                wrapped == wrapBounds(moved, width, height)
            IN  /\ wrapped.x = moved.x % (width * PixelScale)
                /\ wrapped.y = moved.y % (height * PixelScale)

----------------------------------------------------------------------------
(* Properties of the swarm and its field *)

\* C31: once step(renderer) has returned the swarm holds no reference to the
\* trail field's data; destroy() is empty and leaves the reference as it is.
C31_NoPersistentHandle == [][IsSwarmStep => trailMapData' = "null"]_vars

\* C32: across a step() of the swarm no cell of the trail field has a lower
\* intensity after the step than before it.
C32_StepNeverLowers ==
    [][IsSwarmStep =>
        \A p \in DOMAIN Intensities(imageData) :
            Intensities(imageData')[p] >= Intensities(imageData)[p]]_vars

----------------------------------------------------------------------------
(* The driver holding a swarm: loadSystem('agent_slime') where the SlimeMold *)
(* constructor finds degreesToRadians, the renderer in 'agents' mode with    *)
(* its pixel buffer prepared by updateHints.                                 *)

\* decayAmount of fadeTrails
DecayAmount == 2

\* CanvasRenderer.fadeTrails() on the buffer: green falls by decayAmount, and
\* the alpha of a pixel whose green is 0 by twice that
fadeTrails(data) ==
    [i \in DOMAIN data |->
        IF i % 4 = 1
        THEN (IF data[i] > 0 THEN MathMax(0, data[i] - DecayAmount) ELSE data[i])
        ELSE IF i % 4 = 3
        THEN LET green == IF data[i - 2] > 0 THEN MathMax(0, data[i - 2] - DecayAmount)
                          ELSE data[i - 2]
             IN  IF green = 0 /\ data[i] > 0 THEN MathMax(0, data[i] - DecayAmount * 2)
                 ELSE data[i]
        ELSE data[i]]

\* requestRedraw() with a swarm: render() runs fadeTrails, and
\* renderAgentSystem leaves the buffer's bytes as they are
requestRedraw ==
    /\ fadePasses < MaxFadePasses
    /\ imageData' = fadeTrails(imageData)
    /\ fadePasses' = fadePasses + 1

\* currentSystem.step() as stepSimulation calls it, with no renderer, and the
\* requestRedraw() that follows it: the step is skipped and counted
SteppedAndRedrawn ==
    IF stepCalls' # stepCalls
    THEN /\ imageData' = fadeTrails(imageData)
         /\ fadePasses' = 1
         /\ UNCHANGED <<agents, needsBufferUpdate, trailMapData>>
    ELSE UNCHANGED <<agents, needsBufferUpdate, trailMapData, imageData, fadePasses>>

\* animationLoop(timestamp) with a swarm
SwarmAnimationLoop ==
    /\ AnimationLoop
    /\ ~stepError'
    /\ SteppedAndRedrawn
    /\ depositionBatches' = << >>
    /\ UNCHANGED <<agentCount, moveSpeed, turnSpeed, sensorAngle, sensorDistance>>

\* click on the step button with a swarm
SwarmStepClick ==
    /\ StepClick
    /\ ~stepError'
    /\ SteppedAndRedrawn
    /\ depositionBatches' = << >>
    /\ UNCHANGED <<agentCount, moveSpeed, turnSpeed, sensorAngle, sensorDistance>>

\* click on the play / pause button with a swarm
SwarmPlayPauseClick ==
    /\ PlayPauseClick
    /\ UNCHANGED <<agVars, fadePasses>>

\* click on the reset button with a swarm: reset(), then requestRedraw()
SwarmResetClick ==
    /\ ResetClick
    /\ AgResetWith(agentCount, width, height)
    /\ requestRedraw
    /\ depositionBatches' = << >>
    /\ UNCHANGED <<agentCount, moveSpeed, turnSpeed, sensorAngle, sensorDistance, trailMapData>>

\* change of the palette selector or of the grid toggle: requestRedraw()
VisualizationChange ==
    /\ requestRedraw
    /\ UNCHANGED <<baseVars, agents, agentCount, moveSpeed, turnSpeed, sensorAngle,
                   sensorDistance, needsBufferUpdate, trailMapData, depositionBatches,
                   currentSystem, isRunning, animationFrameId, pendingFrames, stepCalls,
                   stepError>>

\* mousedown on the canvas: the swarm's handleMouseDown is empty, then
\* requestRedraw()
SwarmMouseDown ==
    \E x \in 0..(width - 1), y \in 0..(height - 1) :
        /\ requestRedraw
        /\ UNCHANGED <<baseVars, agents, agentCount, moveSpeed, turnSpeed, sensorAngle,
                       sensorDistance, needsBufferUpdate, trailMapData, depositionBatches,
                       currentSystem, isRunning, animationFrameId, pendingFrames, stepCalls,
                       stepError>>

\* the debounced window resize: onResize of the swarm and of the renderer,
\* whose fresh buffer the fadeTrails of requestRedraw() leaves all zero
SwarmResize ==
    /\ AgOnResize
    /\ fadePasses < MaxFadePasses
    /\ fadePasses' = fadePasses + 1
    /\ UNCHANGED <<currentSystem, isRunning, animationFrameId, pendingFrames, stepCalls,
                   stepError>>

\* the driver after initialize() with the swarm as the selector's first
\* option: the swarm reset, the loop started and paused
InitSwarmDriver ==
    /\ \E n \in 1..MaxAgents :
           /\ kind = "agent_slime"
           /\ width = MaxView
           /\ height = MaxView
           /\ iteration = 0
           /\ agentCount = n
           /\ agents \in Spawned(n, MaxView, MaxView)
    /\ imageData = createImageData(MaxView, MaxView)
    /\ moveSpeed = DefaultMoveSpeed
    /\ turnSpeed = DefaultTurnSpeed
    /\ sensorAngle = DefaultSensorAngle
    /\ sensorDistance = DefaultSensorDistance
    /\ needsBufferUpdate = TRUE
    /\ trailMapData = "null"
    /\ depositionBatches = << >>
    /\ currentSystem = "entity"
    /\ isRunning = FALSE
    /\ animationFrameId = 1
    /\ pendingFrames = {1}
    /\ stepCalls = 0
    /\ stepError = FALSE
    /\ fadePasses = 0
    /\ NoGrid
    /\ NoLSystem
    /\ NoLines

NextSwarmDriver ==
    \/ SwarmAnimationLoop /\ UNCHANGED <<caVars, lsVars, tuVars>>
    \/ SwarmStepClick /\ UNCHANGED <<caVars, lsVars, tuVars>>
    \/ SwarmPlayPauseClick /\ UNCHANGED <<caVars, lsVars, tuVars>>
    \/ SwarmResetClick /\ UNCHANGED <<caVars, lsVars, tuVars>>
    \/ VisualizationChange /\ UNCHANGED <<caVars, lsVars, tuVars>>
    \/ SwarmMouseDown /\ UNCHANGED <<caVars, lsVars, tuVars>>
    \/ SwarmResize /\ UNCHANGED <<caVars, lsVars, tuVars>>

SpecSwarmDriver == InitSwarmDriver /\ [][NextSwarmDriver]_vars

SwarmResetRan ==
    \/ AgReset
    \/ AgOnResize
    \/ \E v \in NumericValues["agentCount"] : SlimeSetParamValue("agentCount", v)

\* the square of the distance of an agent from the centre of a w x h field
CentreDistanceSquared(agent, w, h) ==
    (agent.x - (w * PixelScale) \div 2) * (agent.x - (w * PixelScale) \div 2)
        + (agent.y - (h * PixelScale) \div 2) * (agent.y - (h * PixelScale) \div 2)

\* getPopulation(): this.agents.length
getPopulation(ags) == Len(ags)

\* C34: after reset(), onResize() or setParamValue('agentCount', n) the swarm
\* holds exactly params.agentCount agents, at least 1, each inside the field
\* and within 0.05 * min(width, height) of its centre, and getPopulation()
\* is that count.
C34_PopulationAfterReset ==
    [][SwarmResetRan =>
        /\ agentCount' >= 1
        /\ Len(agents') = agentCount'
        /\ getPopulation(agents') = agentCount'
        /\ \A i \in DOMAIN agents' :
               /\ 0 <= agents'[i].x /\ agents'[i].x < width' * PixelScale
               /\ 0 <= agents'[i].y /\ agents'[i].y < height' * PixelScale
               /\ CentreDistanceSquared(agents'[i], width', height')
                      <= (MathMin(width', height') * 5) * (MathMin(width', height') * 5)]_vars

\* the same of the values whose parseFloat is finite
C34_PopulationAfterFiniteReset ==
    [][(SwarmResetRan /\ agentCount' # NaN) =>
        /\ agentCount' >= 1
        /\ Len(agents') = agentCount'
        /\ \A i \in DOMAIN agents' :
               /\ 0 <= agents'[i].x /\ agents'[i].x < width' * PixelScale
               /\ 0 <= agents'[i].y /\ agents'[i].y < height' * PixelScale
               /\ CentreDistanceSquared(agents'[i], width', height')
                      <= (MathMin(width', height') * 5) * (MathMin(width', height') * 5)]_vars

----------------------------------------------------------------------------
(* Properties of the grid buffers *)


\* C35: every cell of the live grid and of the next buffer of a ConwayLife is
\* 0 or 1, and of a BrianBrain 0, 1 or 2.
C35_CellStateRange ==
    kind \in CAKinds =>
        /\ \A y \in DOMAIN grid : \A x \in DOMAIN grid[y] : grid[y][x] \in CellStates(kind)
        /\ \A y \in DOMAIN nextGrid : \A x \in DOMAIN nextGrid[y] :
               nextGrid[y][x] \in CellStates(kind)

\* a stepped BrianBrain with a refractory cell in the live grid and one in
\* the next buffer
C35_Witness ==
    /\ kind = "ca_brain"
    /\ iteration > 0
    /\ \E y \in DOMAIN grid : \E x \in DOMAIN grid[y] : grid[y][x] = 2
    /\ \E y \in DOMAIN nextGrid : \E x \in DOMAIN nextGrid[y] : nextGrid[y][x] = 2

----------------------------------------------------------------------------
(* Properties of the driver holding a swarm *)

----------------------------------------------------------------------------
(* Properties of the animation loop *)

\* C37: while isRunning is true an animation-frame callback is pending, at
\* most one callback is pending at any time, no frame issues more than one
\* step, and a running simulation is eventually stepped.
C37_RunningImpliesScheduled ==
    /\ [](isRunning => pendingFrames # {})
    /\ [](Cardinality(pendingFrames) <= 1)
    /\ [][stepCalls' <= stepCalls + 1]_vars
    /\ \A n \in 0..(MaxStepCalls - 1) :
           (isRunning /\ currentSystem # "null" /\ stepCalls = n)
               ~> (~isRunning \/ currentSystem = "null" \/ stepCalls > n)

\* a running simulation that frames have stepped, its next frame queued
C37_Witness ==
    /\ isRunning
    /\ currentSystem # "null"
    /\ stepCalls > 1
    /\ iteration > 1
    /\ Cardinality(pendingFrames) = 1
    /\ animationFrameId \in pendingFrames

\* no click on the step button issues a step() while isRunning is true
StepOnlyWhenPaused == ~ENABLED (StepClick /\ isRunning /\ stepCalls' # stepCalls)

\* no animation frame issues a step() or changes the iteration counter while
\* isRunning is false
NoFrameStepsWhenPaused ==
    ~ENABLED (AnimationLoop /\ ~isRunning /\ (stepCalls' # stepCalls \/ iteration' # iteration))

\* C38: the step button issues step() only while isRunning is false; loading
\* a system and pressing reset both leave isRunning false; and while
\* isRunning is false no animation frame issues step() or changes the
\* iteration counter.
C38_PauseDiscipline ==
    /\ StepOnlyWhenPaused
    /\ ~ENABLED (LoadSystem /\ isRunning')
    /\ ~ENABLED (ResetClick /\ isRunning')
    /\ NoFrameStepsWhenPaused

\* the same of the reset clicks that find a current system
C38_PauseDisciplineWithSystem ==
    /\ StepOnlyWhenPaused
    /\ ~ENABLED (LoadSystem /\ isRunning')
    /\ ~ENABLED (ResetClick /\ currentSystem # "null" /\ isRunning')
    /\ NoFrameStepsWhenPaused

\* the row arrays of a buffer
RowsOf(ref) == {ref.rows[y] : y \in DOMAIN ref.rows}

\* C39: the live grid and the next-generation buffer are two distinct
\* matrices with no row array in common, each with a row array of its own
\* for every row.
C39_BuffersNeverAlias ==
    kind \in CAKinds =>
        /\ gridRef.matrix # nextGridRef.matrix
        /\ RowsOf(gridRef) \cap RowsOf(nextGridRef) = {}
        /\ Cardinality(RowsOf(gridRef)) = Cardinality(DOMAIN grid)
        /\ Cardinality(RowsOf(nextGridRef)) = Cardinality(DOMAIN nextGrid)

\* a grid of several rows whose buffers a step has swapped since they were
\* allocated
C39_Witness ==
    /\ kind \in CAKinds
    /\ iteration > 0
    /\ rows > 1
    /\ gridRef = createGridObject(2, rows)
    /\ nextGridRef = createGridObject(1, rows)

====
